---- MODULE Spec2Model ----
(***************************************************************************)
(* Model of the Naim media player integration:                             *)
(*   - NaimWebSocketClient (client.py): start, stop and the reconnecting   *)
(*     listener task that reassembles concatenated JSON objects;           *)
(*   - NaimApiClient (client.py): get_value / set_value / send_command     *)
(*     with their retry loop.                                              *)
(* Text is a sequence of one-character strings, a socket chunk a sequence  *)
(* of bytes.  The character U+00E9 is written "E9"; its UTF-8 encoding is  *)
(* the two bytes "C3" "A9".  Every other character is one ASCII byte.      *)
(***************************************************************************)
EXTENDS Integers, Sequences, FiniteSets, TLC

(***************************************************************************)
(* Bounds of the model.                                                    *)
(***************************************************************************)
\* listener tasks created by start() in one behaviour
MaxStarts == 2
\* frames the device sends on one connection
MaxMsgs == 2
\* bytes one reader.read() returns at most (4096 in the code, scaled down)
MaxRead == 4
\* largest max_retries an NaimApiClient is configured with
MaxRetries == 3

Tasks == 1..MaxStarts

(***************************************************************************)
(* Text, bytes and UTF-8.                                                  *)
(***************************************************************************)
Quote == "\""
Whitespace == {" "}
Digits == {"1"}

\* str.encode("utf-8"), one character
EncodeChar(c) == IF c = "E9" THEN <<"C3", "A9">> ELSE <<c>>

RECURSIVE Utf8Encode(_)
\* str.encode("utf-8"): what the device puts on the socket for a text
Utf8Encode(text) ==
    IF text = <<>> THEN <<>>
    ELSE EncodeChar(Head(text)) \o Utf8Encode(Tail(text))

\* bytes.decode("utf-8") is strict: a lead byte needs its continuation byte in
\* the same chunk, a continuation byte needs its lead byte before it
Utf8Valid(data) ==
    \A i \in 1..Len(data) :
        /\ data[i] = "C3" => (i < Len(data) /\ data[i + 1] = "A9")
        /\ data[i] = "A9" => (i > 1 /\ data[i - 1] = "C3")

RECURSIVE Utf8Chars(_, _)
\* the characters of a valid chunk, from byte i on
Utf8Chars(data, i) ==
    IF i > Len(data) THEN <<>>
    ELSE IF data[i] = "C3" THEN <<"E9">> \o Utf8Chars(data, i + 2)
    ELSE <<data[i]>> \o Utf8Chars(data, i + 1)

\* data.decode("utf-8") of one chunk: the text, or UnicodeDecodeError
Utf8Decode(data) ==
    IF Utf8Valid(data) THEN [ok |-> TRUE, text |-> Utf8Chars(data, 1)]
    ELSE [ok |-> FALSE, text |-> <<>>]

(***************************************************************************)
(* json.JSONDecoder.raw_decode on the subset of JSON the model's alphabet  *)
(* spells: objects, strings and numbers.  Positions are 1-based; a scanner *)
(* returns the position after the value it read, or 0 where the code       *)
(* raises JSONDecodeError.                                                 *)
(***************************************************************************)
\* json.decoder WHITESPACE.match(s, i).end()
SkipWs(s, i) ==
    IF \E j \in i..Len(s) : s[j] \notin Whitespace
    THEN CHOOSE j \in i..Len(s) :
            /\ s[j] \notin Whitespace
            /\ \A k \in i..(j - 1) : s[k] \in Whitespace
    ELSE Len(s) + 1

\* py_scanstring from the position after the opening quote
ScanString(s, i) ==
    IF \E j \in i..Len(s) : s[j] = Quote
    THEN (CHOOSE j \in i..Len(s) :
            /\ s[j] = Quote
            /\ \A k \in i..(j - 1) : s[k] # Quote) + 1
    ELSE 0

\* NUMBER_RE.match: the longest run of digits from i
ScanNumber(s, i) ==
    IF \E j \in i..Len(s) : s[j] \notin Digits
    THEN CHOOSE j \in i..Len(s) :
            /\ s[j] \notin Digits
            /\ \A k \in i..(j - 1) : s[k] \in Digits
    ELSE Len(s) + 1

RECURSIVE ScanOnce(_, _)
RECURSIVE ScanMembers(_, _)

\* JSONObject's loop, from the position after the opening quote of a key
ScanMembers(s, i) ==
    LET k == ScanString(s, i)
        c == SkipWs(s, k)
        v == SkipWs(s, c + 1)
        e == ScanOnce(s, v)
        n == SkipWs(s, e)
        q == SkipWs(s, n + 1)
    IN  IF k = 0 THEN 0
        ELSE IF c > Len(s) \/ s[c] # ":" THEN 0
        ELSE IF e = 0 THEN 0
        ELSE IF n > Len(s) THEN 0
        ELSE IF s[n] = "}" THEN n + 1
        ELSE IF s[n] # "," THEN 0
        ELSE IF q > Len(s) \/ s[q] # Quote THEN 0
        ELSE ScanMembers(s, q + 1)

\* JSONObject from the position after the opening brace
ScanObject(s, i) ==
    LET j == SkipWs(s, i)
    IN  IF j > Len(s) THEN 0
        ELSE IF s[j] = "}" THEN j + 1
        ELSE IF s[j] # Quote THEN 0
        ELSE ScanMembers(s, j + 1)

\* scan_once(s, i): no whitespace is skipped before the value
ScanOnce(s, i) ==
    IF i > Len(s) THEN 0
    ELSE IF s[i] = Quote THEN ScanString(s, i + 1)
    ELSE IF s[i] = "{" THEN ScanObject(s, i + 1)
    ELSE IF s[i] \in Digits THEN ScanNumber(s, i)
    ELSE 0

\* self._decoder.raw_decode(self._buffer): idx, the number of characters of
\* the value at the start of the buffer, or 0 for JSONDecodeError
RawDecode(s) ==
    LET e == ScanOnce(s, 1)
    IN  IF e = 0 THEN 0 ELSE e - 1

(***************************************************************************)
(* What the device can put on the stream.                                  *)
(***************************************************************************)
ObjEmpty == <<"{", "}">>
ObjNested == <<"{", Quote, "a", Quote, ":", "{", "}", "}">>
ObjAccent == <<"{", Quote, "E9", Quote, ":", "1", "}">>
Blank == <<" ">>
Junk == <<"}">>

JsonObjects == {ObjEmpty, ObjNested, ObjAccent}
Frames == JsonObjects \cup {Blank, Junk}

RECURSIVE Flatten(_)
\* the concatenation of a sequence of texts
Flatten(texts) ==
    IF texts = <<>> THEN <<>> ELSE Head(texts) \o Flatten(Tail(texts))

IsPrefix(p, s) == Len(p) <= Len(s) /\ SubSeq(s, 1, Len(p)) = p

(***************************************************************************)
(* Python floats.  A float is an IEEE 754 double; the model holds its      *)
(* sign and its magnitude as an exact integer count of units of 2^-60,     *)
(* written in four limbs of 20 bits, least significant first.  Every       *)
(* operation computes the exact result and rounds it to 53 significant     *)
(* bits, ties to even, as the hardware does.  This is exact for the        *)
(* magnitudes the player meets: zero, and 2^-7 up to 2^12.                 *)
(***************************************************************************)
LimbBase == 2 ^ 20
Limbs == 1..4

\* carries moved up so that every limb but the top one is below LimbBase
Norm(a) ==
    LET t2 == a[2] + (a[1] \div LimbBase)
        t3 == a[3] + (t2 \div LimbBase)
        t4 == a[4] + (t3 \div LimbBase)
    IN  <<a[1] % LimbBase, t2 % LimbBase, t3 % LimbBase, t4>>

MagZero == <<0, 0, 0, 0>>
MagAdd(x, y) == Norm([i \in Limbs |-> x[i] + y[i]])
MagSub(x, y) == Norm([i \in Limbs |-> x[i] - y[i]])
MagMul(x, k) == Norm([i \in Limbs |-> x[i] * k])
MagLess(x, y) ==
    \E i \in Limbs : x[i] < y[i] /\ \A j \in (i + 1)..4 : x[j] = y[j]

\* the number of bits of n
BitLen(n) ==
    IF n = 0 THEN 0 ELSE CHOOSE k \in 1..30 : 2 ^ (k - 1) <= n /\ n < 2 ^ k

MagBits(x) ==
    IF x[4] > 0 THEN 60 + BitLen(x[4])
    ELSE IF x[3] > 0 THEN 40 + BitLen(x[3])
    ELSE IF x[2] > 0 THEN 20 + BitLen(x[2])
    ELSE BitLen(x[1])

\* the spacing of the doubles around magnitude x, in units
Quantum(x) == IF MagBits(x) > 53 THEN 2 ^ (MagBits(x) - 53) ELSE 1

\* the double nearest to the exact magnitude x + rem/den, ties to even
RoundMag(x, rem, den) ==
    LET q == Quantum(x)
        r == x[1] % q
        down == [x EXCEPT ![1] = x[1] - r]
        up == Norm([x EXCEPT ![1] = x[1] - r + q])
        twice == 2 * (r * den + rem)
    IN  IF twice < q * den THEN down
        ELSE IF twice > q * den THEN up
        ELSE IF (x[1] \div q) % 2 = 0 THEN down
        ELSE up

MkFloat(neg, mag) == [neg |-> neg /\ mag # MagZero, mag |-> mag]

\* the quotient n / den of two ints as a float, den > 0
FromRatio(n, den) ==
    LET a == IF n < 0 THEN -n ELSE n
        q4 == a \div den
        c3 == (a % den) * LimbBase
        q3 == c3 \div den
        c2 == (c3 % den) * LimbBase
        q2 == c2 \div den
        c1 == (c2 % den) * LimbBase
        q1 == c1 \div den
    IN  MkFloat(n < 0, RoundMag(<<q1, q2, q3, q4>>, c1 % den, den))

\* x + y
FAdd(x, y) ==
    IF x.neg = y.neg
    THEN MkFloat(x.neg, RoundMag(MagAdd(x.mag, y.mag), 0, 1))
    ELSE IF MagLess(x.mag, y.mag)
    THEN MkFloat(y.neg, RoundMag(MagSub(y.mag, x.mag), 0, 1))
    ELSE MkFloat(x.neg, RoundMag(MagSub(x.mag, y.mag), 0, 1))

\* -x and x - y
FNeg(x) == MkFloat(~x.neg, x.mag)
FSub(x, y) == FAdd(x, FNeg(y))

\* x * k for an int k from 1 to 1000
FMulInt(x, k) == MkFloat(x.neg, RoundMag(MagMul(x.mag, k), 0, 1))

\* x < y
FLess(x, y) ==
    IF x.neg /\ ~y.neg THEN TRUE
    ELSE IF ~x.neg /\ y.neg THEN FALSE
    ELSE IF x.neg THEN MagLess(y.mag, x.mag)
    ELSE MagLess(x.mag, y.mag)

\* min(x, y) and max(x, y): the first argument unless the second is smaller
\* (larger)
FMin(x, y) == IF FLess(y, x) THEN y ELSE x
FMax(x, y) == IF FLess(x, y) THEN y ELSE x

\* int(x): truncation toward zero
FToInt(x) == IF x.neg THEN -x.mag[4] ELSE x.mag[4]

(***************************************************************************)
(* The player entity (NaimPlayer): constants, values and push messages.    *)
(***************************************************************************)
\* bound of the player model: operations on the entity per behaviour
MaxOps == 4

\* Python None where a str is stored, and where a float or an int is stored
None == "None"
NoNumber == <<>>
Some(x) == <<x>>

FZero == FromRatio(0, 100)
FOne == FromRatio(100, 100)

\* NaimTransportState
STOPPED == 1
PLAYING == 2
PAUSED == 3

\* MediaPlayerState values the entity uses
HaStates == {"off", "on", "idle", "playing", "paused"}

\* dict.get(k, default)
DictGet(d, k, default) == IF k \in DOMAIN d THEN d[k] ELSE default

TRANSPORT_STATES_STRING_LOOKUP ==
    [s \in {"playing", "paused", "stopped"} |->
        IF s = "playing" THEN "playing" ELSE IF s = "paused" THEN "paused" ELSE "idle"]

NAIM_TRANSPORT_STATE_TO_HA_STATE ==
    [n \in {STOPPED, PLAYING, PAUSED} |->
        IF n = PLAYING THEN "playing" ELSE IF n = PAUSED THEN "paused" ELSE "idle"]

CONST_VOLUME_STEP == FromRatio(5, 100)

SourceMap ==
    [s \in {"Analog 1", "Digital 1", "Digital 2", "Digital 3", "Bluetooth",
            "Web Radio", "Spotify"} |->
        CASE s = "Analog 1" -> "ana1"
          [] s = "Digital 1" -> "dig1"
          [] s = "Digital 2" -> "dig2"
          [] s = "Digital 3" -> "dig3"
          [] s = "Bluetooth" -> "bluetooth"
          [] s = "Web Radio" -> "radio"
          [] s = "Spotify" -> "spotify"]

\* a JSON value as the device sends it: absent (or null), an int or a str
Absent == [kind |-> "absent", n |-> 0, s |-> ""]
IntVal(n) == [kind |-> "int", n |-> n, s |-> ""]
StrVal(s) == [kind |-> "str", n |-> 0, s |-> s]
\* what .get() hands back for a key that holds a str or is missing
PyStr(v) == IF v.kind = "str" THEN v.s ELSE None

\* no command or polling pass yet
IdleCall ==
    [op |-> "none", arg |-> "none", pc |-> "idle", count |-> 0,
     sent |-> <<>>,      \* the HTTP requests of the call, in order
     raised |-> "none",  \* the exception the call ended with, if any
     clean |-> TRUE,     \* whether every request of the call was answered
     written |-> {},     \* the fields a polling pass has assigned so far
     at |-> 0]           \* player.ops when the pending request was sent

\* NaimPlayer.__init__
NewPlayer ==
    [state |-> "off", playing_state |-> "idle", volume |-> FZero,
     muted |-> FALSE, source |-> None,
     media_title |-> None, media_artist |-> None, media_album_name |-> None,
     media_duration |-> NoNumber, media_position |-> NoNumber,
     media_image_url |-> None,
     device_volume |-> NoNumber,   \* the volume of the last PUT to the device
     ops |-> 0,                    \* operations so far
     \* the last operation, its argument and the transport state it polled
     last |-> [op |-> "init", arg |-> "none", polled |-> "none"]]

\* the entity's fields, without the bookkeeping of the model
Fields(p) ==
    [state |-> p.state, playing_state |-> p.playing_state, volume |-> p.volume,
     muted |-> p.muted, source |-> p.source,
     media_title |-> p.media_title, media_artist |-> p.media_artist,
     media_album_name |-> p.media_album_name,
     media_duration |-> p.media_duration, media_position |-> p.media_position,
     media_image_url |-> p.media_image_url]

\* push messages: the text is a JSON object, a JSON array, or not JSON;
\* an object carries data.state, data.trackRoles.title / icon /
\* mediaData.metaData.artist / album, data.status.duration,
\* data.contextPath, playTime.i64_, senderVolume.i32_, senderMute.i32_
EmptyMsg ==
    [name |-> "empty", json |-> "object", state |-> Absent, title |-> Absent,
     artist |-> Absent, album |-> Absent, icon |-> Absent, duration |-> Absent,
     playTime |-> Absent, volume |-> Absent, mute |-> Absent,
     contextPath |-> Absent]
FullMsg ==
    [EmptyMsg EXCEPT !.name = "full", !.state = StrVal("playing"),
        !.title = StrVal("Test Song"), !.icon = StrVal("http://example.com/image.jpg"),
        !.artist = StrVal("Test Artist"), !.album = StrVal("Test Album"),
        !.duration = IntVal(300000), !.contextPath = StrVal("spotify"),
        !.playTime = IntVal(60000), !.volume = IntVal(50), !.mute = IntVal(0)]
PausedMsg ==
    [EmptyMsg EXCEPT !.name = "paused", !.state = StrVal("paused"),
        !.title = StrVal("Other Song"), !.icon = StrVal("http://example.com/other.jpg"),
        !.artist = StrVal("Other Artist"), !.album = StrVal("Other Album"),
        !.duration = IntVal(1500), !.playTime = IntVal(999)]
StoppedMsg ==
    [EmptyMsg EXCEPT !.name = "stopped", !.state = StrVal("stopped"),
        !.title = StrVal("Test Song"), !.icon = StrVal("http://example.com/image.jpg"),
        !.artist = StrVal("Test Artist"), !.album = StrVal("Test Album"),
        !.duration = IntVal(300000), !.playTime = IntVal(0)]
VolumeOnlyMsg == [EmptyMsg EXCEPT !.name = "volume", !.volume = IntVal(30)]
StateOnlyMsg == [EmptyMsg EXCEPT !.name = "state", !.state = StrVal("playing")]
MuteOnlyMsg == [EmptyMsg EXCEPT !.name = "mute", !.mute = IntVal(1)]
BadPlayTimeMsg ==
    [EmptyMsg EXCEPT !.name = "badplaytime", !.state = StrVal("paused"),
        !.playTime = StrVal("abc"), !.volume = IntVal(30)]
BadVolumeMsg ==
    [EmptyMsg EXCEPT !.name = "badvolume", !.state = StrVal("paused"),
        !.duration = StrVal("long"), !.volume = StrVal("loud"), !.mute = IntVal(1),
        !.contextPath = StrVal("spotify:playlist")]
UnknownStateMsg ==
    [EmptyMsg EXCEPT !.name = "unknown", !.state = StrVal("buffering"),
        !.contextPath = StrVal("airplay")]
InvalidJsonMsg == [EmptyMsg EXCEPT !.name = "invalid", !.json = "invalid"]
ArrayMsg == [EmptyMsg EXCEPT !.name = "array", !.json = "array"]

Messages ==
    {FullMsg, PausedMsg, StoppedMsg, VolumeOnlyMsg, StateOnlyMsg, MuteOnlyMsg,
     BadPlayTimeMsg, UnknownStateMsg, BadVolumeMsg, InvalidJsonMsg, ArrayMsg}

(***************************************************************************)
(* State.                                                                  *)
(***************************************************************************)
VARIABLES
    task,       \* NaimWebSocketClient._task: 0 for None, else the latest task
    connected,  \* NaimWebSocketClient._connected
    buffer,     \* NaimWebSocketClient._buffer
    listener,   \* per task: the _socket_listener coroutine and its socket
    running,    \* message_handler invocations begun and not yet finished
    stop,       \* the stop() call in progress, or the last one
    api,        \* the NaimApiClient call in progress, or the last one
    player,     \* the NaimPlayer entity: its fields and its last operation
    call        \* the NaimPlayer command or polling pass in progress, or the last one

vars == <<task, connected, buffer, listener, running, stop, api, player, call>>

(***************************************************************************)
(* One listener task.  pc is the await the coroutine is suspended at:      *)
(*   created     the task exists and has not run yet                       *)
(*   connecting  await asyncio.open_connection          (line 54)          *)
(*   reading     await reader.read(4096)                (line 60)          *)
(*   handling    await self.message_handler(message)    (line 72)          *)
(*   closing     await writer.wait_closed()             (line 96)          *)
(*   sleeping    await asyncio.sleep(reconnect_interval)(line 102)         *)
(*   done        the task has ended                                        *)
(* writer is the local of that name: none, open, closed (close() was       *)
(* called) or closefailed (close() or wait_closed() raised).               *)
(* wire holds the bytes the device has sent and the reader has not yet     *)
(* returned.  The other fields record what happened, for the properties:   *)
(*   sent, handled  the frames the device wrote to the connection and the  *)
(*                  messages passed to the handler, while the listener     *)
(*                  holds the connection                                   *)
(*   cause          why the last attempt ended, or handlerjson once the    *)
(*                  handler has raised JSONDecodeError on this one         *)
(*   sleeps         the sleeps since the last attempt ended                *)
(*   gap, stale     while connecting: the sleeps since the previous        *)
(*                  attempt (-1 for the first) and whether line 52 found   *)
(*                  text in the buffer                                     *)
(*   stopped, late  a stop() that cancelled the task has returned; the     *)
(*                  task touched the socket or the handler after that      *)
(***************************************************************************)
NoTask ==
    [pc |-> "unborn", writer |-> "none", cancelReq |-> FALSE,
     unwinding |-> FALSE, exit |-> "none", wire |-> <<>>, sent |-> <<>>,
     handled |-> <<>>, cause |-> "none", sleeps |-> 0, gap |-> -1,
     stale |-> FALSE, stopped |-> FALSE, late |-> FALSE]

IdleStop ==
    [pc |-> "idle", task |-> 0, saw |-> "none", cancelled |-> FALSE,
     outcome |-> "none"]

\* NaimApiClient.__init__: max_retries defaults to 3
DefaultMaxRetries == 3

IdleApi ==
    [pc |-> "idle", op |-> "none", maxRetries |-> DefaultMaxRetries,
     retry |-> 0, resps |-> <<>>, sleeps |-> <<>>, result |-> "none",
     names |-> {}, body |-> "none", value |-> "none"]

\* NaimWebSocketClient.__init__
Init ==
    /\ task = 0
    /\ connected = FALSE
    /\ buffer = <<>>
    /\ listener = [t \in Tasks |-> NoTask]
    /\ running = <<>>
    /\ stop = IdleStop
    /\ api = IdleApi
    /\ player = NewPlayer
    /\ call = IdleCall

(***************************************************************************)
(* Other ways the two clients could have been written; the properties at   *)
(* the end of the module tell the code apart from them.                    *)
(***************************************************************************)
\* the buffer survives from one attempt to the next
KeepBuffer(buf) == buf

\* the sleep sits in the except branch only: none after a peer close
SleepOnErrorOnly(c) == IF c = "eof" THEN 0 ELSE 1

\* except OSError in place of except Exception
OnlyOSErrorCaught(e) == e = "OSError"

\* a bare except, which also catches CancelledError
EverythingCaught(e) == TRUE

\* no close in the finally block
NeverClose(w) == FALSE

RECURSIVE DispatchAll(_)
\* every complete object is handed to its own handler task, none is awaited
DispatchAll(buf) ==
    LET idx == RawDecode(buf)
        rest == DispatchAll(SubSeq(buf, idx + 1, Len(buf)))
    IN  IF buf = <<>> \/ idx = 0
        THEN [buffer |-> buf, msgs |-> <<>>, await |-> FALSE]
        ELSE [buffer |-> rest.buffer,
              msgs |-> <<SubSeq(buf, 1, idx)>> \o rest.msgs, await |-> FALSE]

\* a failed decode discards the buffer
DropOnFailure(buf) ==
    LET idx == RawDecode(buf)
    IN  IF buf = <<>> \/ idx = 0
        THEN [buffer |-> <<>>, msgs |-> <<>>, await |-> FALSE]
        ELSE [buffer |-> SubSeq(buf, idx + 1, Len(buf)),
              msgs |-> <<SubSeq(buf, 1, idx)>>, await |-> TRUE]

\* except asyncio.TimeoutError in place of except Exception
OnlyTimeoutCaught(e) == e = "TimeoutError"

\* a sleep after every failed attempt, the last one included
SleepsAlways(retry, m) == TRUE

\* aiohttp.ClientError handled like a timeout
NeverFailsFast(o) == FALSE

(***************************************************************************)
(* Pieces of _socket_listener.                                             *)
(***************************************************************************)
\* "except Exception" (lines 76, 80, 97): CancelledError is a BaseException
ExceptionCaught(e) == e # "CancelledError"

\* line 52: the buffer a connection attempt starts with
AttemptBuffer(buf) == <<>>

\* line 93: if writer is not None
NeedsClose(w) == w # "none"

\* line 102: the sleeps between the end of an attempt and the next one
SleepsBeforeRetry(c) == 1

\* lines 66-75, up to the first await: decode one object at the start of the
\* buffer, cut it off and await the handler; stop at a JSONDecodeError
DecodeLoop(buf) ==
    LET idx == RawDecode(buf)
    IN  IF buf = <<>> \/ idx = 0
        THEN [buffer |-> buf, msgs |-> <<>>, await |-> FALSE]
        ELSE [buffer |-> SubSeq(buf, idx + 1, Len(buf)),
              msgs |-> <<SubSeq(buf, 1, idx)>>, await |-> TRUE]

\* the connection is gone: its record is dropped
Forget(r) ==
    [r EXCEPT !.sent = <<>>, !.handled = <<>>, !.wire = <<>>, !.gap = -1,
              !.stale = FALSE]

\* the coroutine's frame is gone: of its writer only a socket that was
\* never closed stays behind
Ended(r) ==
    [Forget(r) EXCEPT !.pc = "done", !.unwinding = FALSE, !.cause = "none",
                      !.sleeps = 0,
                      !.writer = IF r.writer = "open" THEN "open" ELSE "none"]

\* the task ends because an exception left the coroutine
Dying(r) == [Ended(r) EXCEPT !.exit = "error"]

\* the task ends because CancelledError left the coroutine
Cancelled(r) == [Ended(r) EXCEPT !.exit = "cancelled"]

\* line 102
Delay(r) ==
    [Forget(r) EXCEPT !.pc = "sleeping",
                      !.sleeps = r.sleeps + SleepsBeforeRetry(r.cause)]

\* the end of the finally block: re-raise what is propagating, or go on
AfterFinally(r, reraise) == IF reraise THEN Cancelled(r) ELSE Delay(r)

\* lines 91-98, up to the await of wait_closed
Finally(r, closeOK, reraise) ==
    IF NeedsClose(r.writer)
    THEN IF closeOK
         THEN [(IF reraise THEN Forget(r) ELSE r) EXCEPT
                   !.writer = "closed", !.pc = "closing",
                   !.unwinding = reraise]
         ELSE IF ExceptionCaught("Exception")
              THEN AfterFinally([r EXCEPT !.writer = "closefailed"], reraise)
              ELSE Dying(r)
    ELSE AfterFinally(r, reraise)

\* the read loop is left for cause c: lines 63, 78 and 80-98
LeaveTry(r, c, closeOK, reraise) ==
    Finally([r EXCEPT !.cause = c, !.wire = <<>>, !.gap = -1,
                      !.stale = FALSE], closeOK, reraise)

\* exception e is raised inside the try of line 53
RaiseInTry(r, e, c, closeOK) ==
    IF ExceptionCaught(e) THEN LeaveTry(r, c, closeOK, FALSE)
    ELSE IF e = "CancelledError" THEN LeaveTry(r, c, closeOK, TRUE)
    ELSE Dying(r)

\* a step of task t that touches the socket or the handler, noted when it
\* comes after a stop() that cancelled t has returned
Acted(r) == [r EXCEPT !.late = r.late \/ r.stopped]

Live(t) == listener[t].pc \notin {"unborn", "done"}

(***************************************************************************)
(* NaimWebSocketClient.start and the listener's steps.                     *)
(***************************************************************************)
\* start(), lines 29-31, called when no listener is running: the first
\* time, or after a stop() that cancelled the previous one has returned
Start ==
    /\ task < MaxStarts
    /\ stop.pc = "idle"
    /\ IF task = 0 THEN TRUE ELSE listener[task].stopped
    /\ task' = task + 1
    /\ listener' = [listener EXCEPT ![task + 1] = [NoTask EXCEPT !.pc = "created"]]
    /\ stop' = IdleStop
    /\ UNCHANGED <<connected, buffer, running, api, player, call>>

\* lines 48-54: the top of the loop up to the await of open_connection.  The
\* event loop runs callbacks in the order they were scheduled, so a task's
\* first step comes after the cancellation of every task cancelled before it
BeginAttempt(t) ==
    LET r == listener[t]
    IN  /\ r.pc \in {"created", "sleeping"}
        /\ ~r.cancelReq
        /\ r.pc = "created" => \A u \in Tasks : ~listener[u].cancelReq
        /\ buffer' = AttemptBuffer(buffer)
        /\ listener' = [listener EXCEPT ![t] =
              Acted([r EXCEPT !.pc = "connecting", !.writer = "none",
                              !.gap = IF r.pc = "created" THEN -1 ELSE r.sleeps,
                              !.stale = (buffer # <<>>),
                              !.sleeps = 0, !.sent = <<>>, !.handled = <<>>,
                              !.wire = <<>>])]
        /\ UNCHANGED <<task, connected, running, stop, api, player, call>>

\* lines 54-56: open_connection returns
OpenConnectionOK(t) ==
    LET r == listener[t]
    IN  /\ r.pc = "connecting"
        /\ ~r.cancelReq
        /\ connected' = TRUE
        /\ listener' = [listener EXCEPT ![t] =
              [r EXCEPT !.pc = "reading", !.writer = "open", !.cause = "none",
                        !.gap = -1, !.stale = FALSE]]
        /\ UNCHANGED <<task, buffer, running, stop, api, player, call>>

\* lines 54, 80-102: open_connection raises
OpenConnectionFail(t) ==
    LET r == listener[t]
    IN  /\ r.pc = "connecting"
        /\ ~r.cancelReq
        /\ connected' = FALSE
        /\ listener' = [listener EXCEPT ![t] =
              RaiseInTry(r, "OSError", "refused", TRUE)]
        /\ UNCHANGED <<task, buffer, running, stop, api, player, call>>

\* the device writes one frame to the open connection
DeviceSend(t, f) ==
    LET r == listener[t]
    IN  /\ r.pc \in {"reading", "handling"}
        /\ ~r.cancelReq
        /\ Len(r.sent) < MaxMsgs
        /\ listener' = [listener EXCEPT ![t] =
              [r EXCEPT !.sent = Append(r.sent, f),
                        !.wire = r.wire \o Utf8Encode(f)]]
        /\ UNCHANGED <<task, connected, buffer, running, stop, api, player, call>>

\* lines 60-75: reader.read returns the next n bytes
ReaderRead(t, n, closeOK) ==
    LET r == listener[t]
        d == Utf8Decode(SubSeq(r.wire, 1, n))
        rest == SubSeq(r.wire, n + 1, Len(r.wire))
        lp == DecodeLoop(buffer \o d.text)
    IN  /\ r.pc = "reading"
        /\ ~r.cancelReq
        /\ n \in 1..Len(r.wire)
        /\ n <= MaxRead
        /\ IF d.ok
           THEN /\ buffer' = lp.buffer
                /\ running' = running \o lp.msgs
                /\ listener' = [listener EXCEPT ![t] =
                      Acted([r EXCEPT !.wire = rest,
                                      !.handled = r.handled \o lp.msgs,
                                      !.pc = IF lp.await THEN "handling"
                                             ELSE "reading"])]
                /\ closeOK
                /\ UNCHANGED connected
           ELSE /\ connected' = FALSE
                /\ listener' = [listener EXCEPT ![t] =
                      RaiseInTry(Acted(r), "UnicodeDecodeError", "decodeerr",
                                 closeOK)]
                /\ UNCHANGED <<buffer, running>>
        /\ UNCHANGED <<task, stop, api, player, call>>

\* a peer close with no assignment of _connected in the finally block: only
\* the except branch clears the flag
ReaderEOFKeepsFlag(t, closeOK) ==
    LET r == listener[t]
    IN  /\ r.pc = "reading"
        /\ ~r.cancelReq
        /\ r.wire = <<>>
        /\ listener' = [listener EXCEPT ![t] =
              LeaveTry(Acted(r), "eof", closeOK, FALSE)]
        /\ UNCHANGED <<task, connected, buffer, running, stop, api, player, call>>

\* lines 61-63: reader.read returns b"" once the peer has closed
ReaderEOF(t, closeOK) ==
    LET r == listener[t]
    IN  /\ r.pc = "reading"
        /\ ~r.cancelReq
        /\ r.wire = <<>>
        /\ connected' = FALSE
        /\ listener' = [listener EXCEPT ![t] =
              LeaveTry(Acted(r), "eof", closeOK, FALSE)]
        /\ UNCHANGED <<task, buffer, running, stop, api, player, call>>

\* lines 60, 76-78: reader.read raises
ReaderError(t, closeOK) ==
    LET r == listener[t]
    IN  /\ r.pc = "reading"
        /\ ~r.cancelReq
        /\ connected' = FALSE
        /\ listener' = [listener EXCEPT ![t] =
              RaiseInTry(Acted(r), "OSError", "readerr", closeOK)]
        /\ UNCHANGED <<task, buffer, running, stop, api, player, call>>

\* line 72 returns: the oldest running handler invocation finishes, and the
\* task that awaits it goes round the loop of line 66 again
HandlerReturn ==
    LET waiting == {t \in Tasks : listener[t].pc = "handling"}
    IN  /\ running # <<>>
        /\ \A t \in waiting : ~listener[t].cancelReq
        /\ IF waiting = {}
           THEN /\ running' = Tail(running)
                /\ UNCHANGED <<buffer, listener>>
           ELSE LET t == CHOOSE u \in waiting : TRUE
                    r == listener[t]
                    lp == DecodeLoop(buffer)
                IN  /\ buffer' = lp.buffer
                    /\ running' = Tail(running) \o lp.msgs
                    /\ listener' = [listener EXCEPT ![t] =
                          [r EXCEPT !.handled = r.handled \o lp.msgs,
                                    !.late = r.late \/ (r.stopped /\ lp.await),
                                    !.pc = IF lp.await THEN "handling"
                                           ELSE "reading"]]
        /\ UNCHANGED <<task, connected, stop, api, player, call>>

\* line 72 raises: JSONDecodeError is caught by line 73 and the task goes back
\* to reading; anything else by line 76
HandlerRaise(t, e, closeOK) ==
    LET r == listener[t]
    IN  /\ r.pc = "handling"
        /\ ~r.cancelReq
        /\ running' = Tail(running)
        /\ IF e = "JSONDecodeError"
           THEN /\ closeOK
                /\ listener' = [listener EXCEPT ![t] =
                      [r EXCEPT !.pc = "reading", !.cause = "handlerjson"]]
                /\ UNCHANGED connected
           ELSE /\ connected' = FALSE
                /\ listener' = [listener EXCEPT ![t] =
                      RaiseInTry(r, e, "handlererr", closeOK)]
        /\ UNCHANGED <<task, buffer, stop, api, player, call>>

\* lines 96-98: wait_closed returns (ok) or raises
WaitClosed(t, ok) ==
    LET r == listener[t]
    IN  /\ r.pc = "closing"
        /\ ~r.cancelReq
        /\ listener' = [listener EXCEPT ![t] =
              IF ok THEN AfterFinally(r, r.unwinding)
              ELSE IF ExceptionCaught("Exception")
                   THEN AfterFinally([r EXCEPT !.writer = "closefailed"],
                                     r.unwinding)
                   ELSE Dying(r)]
        /\ UNCHANGED <<task, connected, buffer, running, stop, api, player, call>>

\* Task.cancel() takes effect: CancelledError is raised at the await the task
\* is suspended at
DeliverCancel(t, closeOK) ==
    LET r == [listener[t] EXCEPT !.cancelReq = FALSE]
    IN  /\ Live(t)
        /\ listener[t].cancelReq
        /\ running' = IF r.pc = "handling" THEN Tail(running) ELSE running
        /\ connected' = IF r.pc \in {"connecting", "reading", "handling"}
                        THEN FALSE ELSE connected
        /\ listener' = [listener EXCEPT ![t] =
              IF r.pc \in {"created", "sleeping"} THEN Cancelled(r)
              ELSE IF r.pc = "closing"
                   THEN IF ExceptionCaught("CancelledError")
                        THEN AfterFinally(r, r.unwinding)
                        ELSE Cancelled(r)
                   ELSE RaiseInTry(r, "CancelledError", "cancel", closeOK)]
        /\ UNCHANGED <<task, buffer, stop, api, player, call>>

(***************************************************************************)
(* NaimWebSocketClient.stop, lines 33-42.                                  *)
(***************************************************************************)
\* line 35: if self._task and not self._task.done()
ShouldCancel(tk, isDone) == tk # 0 /\ ~isDone

\* line 41: except Exception
StopCaught(e) == e # "CancelledError"

\* what asyncio.wait can raise into stop()
WaitErrors == {"Exception"}

\* lines 35-38, up to the await of asyncio.wait
StopCall ==
    LET isDone == task # 0 /\ listener[task].pc = "done"
    IN  /\ stop.pc = "idle"
        /\ IF ShouldCancel(task, isDone)
           THEN /\ listener' = [listener EXCEPT ![task].cancelReq = Live(task)]
                /\ stop' = [pc |-> "waiting", task |-> task,
                            saw |-> IF isDone THEN "finished" ELSE "running",
                            cancelled |-> TRUE, outcome |-> "none"]
           ELSE /\ stop' = [pc |-> "idle", task |-> task,
                            saw |-> IF task = 0 THEN "notask" ELSE "finished",
                            cancelled |-> FALSE, outcome |-> "returned"]
                /\ UNCHANGED listener
        /\ UNCHANGED <<task, connected, buffer, running, api, player, call>>

\* line 38: asyncio.wait returns with the task done
StopWaitDone ==
    /\ stop.pc = "waiting"
    /\ listener[stop.task].pc = "done"
    /\ stop' = [stop EXCEPT !.pc = "idle", !.outcome = "done"]
    /\ listener' = [listener EXCEPT ![stop.task].stopped = TRUE]
    /\ UNCHANGED <<task, connected, buffer, running, api, player, call>>

\* lines 38-40: asyncio.wait returns after 1 second with the task pending.
\* The cancelled task was scheduled before the timer, so it has received its
\* CancelledError by then
StopWaitTimeout ==
    /\ stop.pc = "waiting"
    /\ Live(stop.task)
    /\ ~listener[stop.task].cancelReq
    /\ stop' = [stop EXCEPT !.pc = "idle", !.outcome = "timeout"]
    /\ listener' = [listener EXCEPT ![stop.task].stopped = TRUE]
    /\ UNCHANGED <<task, connected, buffer, running, api, player, call>>

\* lines 38, 41-42: asyncio.wait raises
StopWaitRaises(e) ==
    /\ stop.pc = "waiting"
    /\ stop' = [stop EXCEPT !.pc = "idle",
                            !.outcome = IF StopCaught(e) THEN "error"
                                        ELSE "raised"]
    /\ listener' = [listener EXCEPT ![stop.task].stopped = TRUE]
    /\ UNCHANGED <<task, connected, buffer, running, api, player, call>>

(***************************************************************************)
(* The stream client: start, stop, the listener tasks and the device.      *)
(***************************************************************************)
HandlerErrors == {"Exception", "JSONDecodeError"}

Next ==
    \/ Start
    \/ StopCall
    \/ StopWaitDone
    \/ StopWaitTimeout
    \/ \E e \in WaitErrors : StopWaitRaises(e)
    \/ \E t \in Tasks : BeginAttempt(t)
    \/ \E t \in Tasks : OpenConnectionOK(t)
    \/ \E t \in Tasks : OpenConnectionFail(t)
    \/ \E t \in Tasks, f \in Frames : DeviceSend(t, f)
    \/ \E t \in Tasks, n \in 1..MaxRead, closeOK \in BOOLEAN :
          ReaderRead(t, n, closeOK)
    \/ \E t \in Tasks, closeOK \in BOOLEAN : ReaderEOF(t, closeOK)
    \/ \E t \in Tasks, closeOK \in BOOLEAN : ReaderError(t, closeOK)
    \/ HandlerReturn
    \/ \E t \in Tasks, e \in HandlerErrors, closeOK \in BOOLEAN :
          HandlerRaise(t, e, closeOK)
    \/ \E t \in Tasks, ok \in BOOLEAN : WaitClosed(t, ok)
    \/ \E t \in Tasks, closeOK \in BOOLEAN : DeliverCancel(t, closeOK)

Spec == Init /\ [][Next]_vars

(***************************************************************************)
(* NaimApiClient: get_value, set_value and send_command, lines 148-237.    *)
(* The three methods run the same loop; api.op tells them apart.  pc is    *)
(*   idle      no call has been made                                       *)
(*   request   the call awaits the response of attempt api.retry           *)
(*   sleeping  the call awaits asyncio.sleep between two attempts          *)
(*   returned  the call has returned                                       *)
(*   raised    the call has raised NaimConnectionError                     *)
(* resps are the outcomes of the requests made so far, sleeps the delays   *)
(* slept so far, result the kind of the error raised and names what its    *)
(* message mentions.  get_value has two more positions:                    *)
(*   json      the call awaits response.json() of a 200 response           *)
(*   failed    the call has raised an error other than NaimConnectionError *)
(* body is the body of that response and value what the call returned.     *)
(***************************************************************************)
\* line 154: the one status that counts as success
HttpOk == "200"

Statuses == {HttpOk, "204", "500"}
Outcomes == Statuses \cup {"timeout", "clienterror"}

\* lines 154, 184, 214: if response.status == 200
Succeeds(o) == o = HttpOk

\* lines 172, 199, 233: except aiohttp.ClientError raises at once
FailsFast(o) == o = "clienterror"

\* lines 162, 170: if retry < self._max_retries - 1
SleepsAfter(retry, m) == retry < m - 1

\* lines 163, 171: asyncio.sleep(2**retry)
BackoffDelay(retry) == 2 ^ retry

\* what the messages of lines 173, 200 and 234 mention
TransportNames(op) ==
    CASE op = "get" -> {"variable", "endpoint", "cause"}
      [] op = "set" -> {"endpoint", "cause"}
      [] op = "cmd" -> {"command", "endpoint", "cause"}

\* what the messages of lines 176, 203 and 237 mention
ExhaustedNames(op) ==
    CASE op = "get" -> {"variable", "endpoint", "attempts"}
      [] op = "set" -> {"endpoint", "attempts"}
      [] op = "cmd" -> {"command", "endpoint", "attempts"}

\* the bodies of a 200 response: a JSON object with the variable, a JSON
\* object without it, JSON that is no object
Bodies == {"field", "nofield", "notobject"}

\* line 156: data.get(variable)
BodyValue(b) == IF b = "field" THEN "fieldvalue" ELSE "None"

\* a loop that goes on until a request succeeds
IterateUntilSuccess(a, retry) == [a EXCEPT !.pc = "request", !.retry = retry]

\* a loop that makes one attempt more than max_retries
IterateOneMore(a, retry) ==
    IF retry <= a.maxRetries
    THEN [a EXCEPT !.pc = "request", !.retry = retry]
    ELSE [a EXCEPT !.pc = "raised", !.retry = retry,
                   !.result = "exhausted", !.names = ExhaustedNames(a.op)]

\* the for statement of lines 150, 180, 210 with retry as the next index:
\* another request, or the raise after the loop
Iterate(a, retry) ==
    IF retry < a.maxRetries
    THEN [a EXCEPT !.pc = "request", !.retry = retry]
    ELSE [a EXCEPT !.pc = "raised", !.retry = retry,
                   !.result = "exhausted", !.names = ExhaustedNames(a.op)]

\* the client has no call running
ApiFree == api.pc \in {"idle", "returned", "raised", "failed"}

\* a call of method op, up to its first await or its end
ApiCall(op) ==
    Iterate([IdleApi EXCEPT !.op = op, !.maxRetries = api.maxRetries], 0)

\* get_value, lines 148-153
GetValue ==
    /\ ApiFree
    /\ api' = ApiCall("get")
    /\ UNCHANGED <<task, connected, buffer, listener, running, stop, player, call>>

\* set_value, lines 178-183
SetValue ==
    /\ ApiFree
    /\ api' = ApiCall("set")
    /\ UNCHANGED <<task, connected, buffer, listener, running, stop, player, call>>

\* send_command, lines 205-213
SendCommand ==
    /\ ApiFree
    /\ api' = ApiCall("cmd")
    /\ UNCHANGED <<task, connected, buffer, listener, running, stop, player, call>>

\* the request of the current attempt ends with outcome o
ApiResponse(o) ==
    LET a == [api EXCEPT !.resps = Append(api.resps, o)]
    IN  /\ api.pc = "request"
        /\ api' =
              IF Succeeds(o)
              THEN IF a.op = "get"
                   THEN [a EXCEPT !.pc = "json"]
                   ELSE [a EXCEPT !.pc = "returned", !.result = "ok",
                                  !.value = "True"]
              ELSE IF FailsFast(o)
              THEN [a EXCEPT !.pc = "raised", !.result = "transport",
                             !.names = TransportNames(a.op)]
              ELSE IF SleepsAfter(a.retry, a.maxRetries)
              THEN [a EXCEPT !.pc = "sleeping",
                             !.sleeps = Append(a.sleeps, BackoffDelay(a.retry))]
              ELSE Iterate(a, a.retry + 1)
        /\ UNCHANGED <<task, connected, buffer, listener, running, stop, player, call>>

\* lines 155-156: response.json() returns body b, and data.get(variable) is
\* returned or, on a body that is no object, raises AttributeError
ApiJson(b) ==
    /\ api.pc = "json"
    /\ api' = IF b = "notobject"
              THEN [api EXCEPT !.pc = "failed", !.body = b,
                               !.result = "AttributeError"]
              ELSE [api EXCEPT !.pc = "returned", !.body = b, !.result = "ok",
                               !.value = BodyValue(b)]
    /\ UNCHANGED <<task, connected, buffer, listener, running, stop, player, call>>

\* lines 163, 171: the sleep between two attempts is over
ApiSleepDone ==
    /\ api.pc = "sleeping"
    /\ api' = Iterate(api, api.retry + 1)
    /\ UNCHANGED <<task, connected, buffer, listener, running, stop, player, call>>

\* a client constructed with any max_retries from 0 to MaxRetries
InitApi ==
    /\ task = 0
    /\ connected = FALSE
    /\ buffer = <<>>
    /\ listener = [t \in Tasks |-> NoTask]
    /\ running = <<>>
    /\ stop = IdleStop
    /\ api \in {[IdleApi EXCEPT !.maxRetries = m] : m \in 0..MaxRetries}
    /\ player = NewPlayer
    /\ call = IdleCall

NextApi ==
    \/ GetValue
    \/ SetValue
    \/ SendCommand
    \/ \E o \in Outcomes : ApiResponse(o)
    \/ \E b \in Bodies : ApiJson(b)
    \/ ApiSleepDone

SpecApi == InitApi /\ [][NextApi]_vars

(***************************************************************************)
(* The player entity (NaimPlayer): SpecPlayer.                             *)
(* Push messages arrive through _handle_socket_message, polls through      *)
(* update_state and async_update, commands through the volume services.    *)
(* A request that fails with aiohttp.ClientError is logged and leaves the  *)
(* fields as a request that succeeds leaves them, so the outcome of the    *)
(* request is not an input of the actions.                                 *)
(***************************************************************************)
\* another way to convert: the milliseconds kept as they are
MsUnconverted(ms) == FromRatio(ms, 1)

\* another way to take the source: the context path as it is
ApplySourceRaw(p, m) ==
    IF m.contextPath.kind = "str" THEN [p EXCEPT !.source = m.contextPath.s] ELSE p

\* NaimPlayer.state
State(p) == IF p.playing_state = "idle" THEN p.state ELSE p.playing_state

\* milliseconds to seconds: float(ms) / 1000 and ms / 1000
MsToSeconds(ms) == FromRatio(ms, 1000)

\* str.startswith("spotify"), over the context paths of the model
StartsWithSpotify(s) == s \in {"spotify", "spotify:playlist"}

\* title, artist, album, playback state and image of _handle_socket_message:
\* each track field takes what .get() returns, None when the key is missing
ApplyTrack(p, m) ==
    [p EXCEPT !.media_title = PyStr(m.title),
              !.media_artist = PyStr(m.artist),
              !.media_album_name = PyStr(m.album),
              !.playing_state = DictGet(TRANSPORT_STATES_STRING_LOOKUP,
                                        PyStr(m.state), p.playing_state),
              !.media_image_url = PyStr(m.icon)]

\* duration: a value float() rejects is logged and skipped
ApplyDuration(p, m) ==
    IF m.duration.kind = "int"
    THEN [p EXCEPT !.media_duration = Some(MsToSeconds(m.duration.n))]
    ELSE p

ApplyPosition(p, m) ==
    IF m.playTime.kind = "int"
    THEN [p EXCEPT !.media_position = Some(MsToSeconds(m.playTime.n))]
    ELSE p

ApplyVolume(p, m) ==
    IF m.volume.kind = "int"
    THEN [p EXCEPT !.volume = FromRatio(m.volume.n, 100)]
    ELSE p

ApplyMute(p, m) ==
    IF m.mute.kind = "int" THEN [p EXCEPT !.muted = (m.mute.n # 0)] ELSE p

ApplySource(p, m) ==
    IF m.contextPath.kind = "str" /\ m.contextPath.s # p.source
    THEN [p EXCEPT !.source = IF StartsWithSpotify(m.contextPath.s)
                              THEN "Spotify" ELSE m.contextPath.s]
    ELSE p

\* the fields after _handle_socket_message(m).  json.loads raises on text
\* that is not JSON and data.get on a JSON array; a str playTime raises
\* TypeError in the division, a non-numeric senderVolume or senderMute
\* raises ValueError in int(); each is caught by the handler's except
\* clauses, after the statements before it have run.
\* the handler gives way to the event loop after the track fields: the rest
\* of the message is not applied in the same step
HandledTrackFirst(p, m) == IF m.json # "object" THEN p ELSE ApplyTrack(p, m)

Handled(p, m) ==
    IF m.json # "object" THEN p
    ELSE LET a == ApplyDuration(ApplyTrack(p, m), m)
         IN  IF m.playTime.kind = "str" THEN a
             ELSE LET b == ApplyPosition(a, m)
                  IN  IF m.volume.kind = "str" THEN b
                      ELSE LET c == ApplyVolume(b, m)
                           IN  IF m.mute.kind = "str" THEN c
                               ELSE ApplySource(ApplyMute(c, m), m)

\* whether _handle_socket_message(m) runs into an exception
Unprocessable(m) ==
    \/ m.json # "object"
    \/ m.playTime.kind = "str"
    \/ m.volume.kind = "str"
    \/ m.mute.kind = "str"

\* the bookkeeping of the model: one more operation, and which
Did(p, op, arg, polled) ==
    [p EXCEPT !.ops = @ + 1, !.last = [op |-> op, arg |-> arg, polled |-> polled]]

HandleSocketMessage(m) ==
    /\ player.ops < MaxOps
    /\ player' = Did(Handled(player, m), "push", m.name, "none")
    /\ UNCHANGED <<task, connected, buffer, listener, running, stop, api, call>>

\* polled values: power/system and nowplaying/transportState
Powers == {"lona", "on", None}
Transports == {Absent, IntVal(STOPPED), IntVal(PLAYING), IntVal(PAUSED)}

\* the nowplaying endpoint: nothing playing, or a radio stream
NothingPlaying ==
    [title |-> Absent, artistName |-> Absent, albumName |-> Absent,
     duration |-> Absent, transportPosition |-> Absent, artwork |-> Absent,
     source |-> Absent]
RadioPlaying ==
    [title |-> StrVal("Polled Song"), artistName |-> StrVal("Polled Artist"),
     albumName |-> StrVal("Polled Album"), duration |-> IntVal(180),
     transportPosition |-> IntVal(7), artwork |-> StrVal("http://example.com/radio.jpg"),
     source |-> StrVal("radio")]

\* the name of a polled transport state
TransportName(v) ==
    IF v.kind # "int" THEN "missing"
    ELSE IF v.n = STOPPED THEN "STOPPED"
    ELSE IF v.n = PLAYING THEN "PLAYING"
    ELSE "PAUSED"

\* the number .get() hands back, kept as it is
PyNumber(v) == IF v.kind = "int" THEN Some(FromRatio(v.n, 1)) ELSE NoNumber

\* the fields after update_state()
Updated(p, power, transport) ==
    IF power = "lona" THEN [p EXCEPT !.state = "off"]
    ELSE IF power = "on"
    THEN [p EXCEPT !.state =
            IF transport.kind = "int"
            THEN DictGet(NAIM_TRANSPORT_STATE_TO_HA_STATE, transport.n, "on")
            ELSE "on"]
    ELSE p

UpdateState(power, transport) ==
    /\ player.ops < MaxOps
    /\ player' = Did(Updated(player, power, transport), "update_state", power,
                     TransportName(transport))
    /\ UNCHANGED <<task, connected, buffer, listener, running, stop, api, call>>

\* the fields after update_media_info()
MediaInfoUpdated(p, info) ==
    [p EXCEPT !.media_title = PyStr(info.title),
              !.media_artist = PyStr(info.artistName),
              !.media_album_name = PyStr(info.albumName),
              !.media_duration = PyNumber(info.duration),
              !.media_position = PyNumber(info.transportPosition),
              !.media_image_url = PyStr(info.artwork),
              !.source =
                IF \E k \in DOMAIN SourceMap : SourceMap[k] = PyStr(info.source)
                THEN CHOOSE k \in DOMAIN SourceMap : SourceMap[k] = PyStr(info.source)
                ELSE p.source]

\* the device as one poll finds it
Standby ==
    [name |-> "standby", power |-> "lona", transport |-> Absent,
     volume |-> IntVal(40), mute |-> IntVal(0), info |-> NothingPlaying]
OnStopped ==
    [name |-> "stopped", power |-> "on", transport |-> IntVal(STOPPED),
     volume |-> IntVal(40), mute |-> IntVal(0), info |-> NothingPlaying]
OnPlaying ==
    [name |-> "playing", power |-> "on", transport |-> IntVal(PLAYING),
     volume |-> IntVal(40), mute |-> IntVal(1), info |-> RadioPlaying]
Unreachable ==
    [name |-> "unreachable", power |-> None, transport |-> Absent,
     volume |-> Absent, mute |-> Absent, info |-> NothingPlaying]
Polls == {Standby, OnStopped, OnPlaying, Unreachable}

AsyncUpdate(d) ==
    /\ player.ops < MaxOps
    /\ player' =
          Did(MediaInfoUpdated(
                  ApplyMute(ApplyVolume(Updated(player, d.power, d.transport), d), d),
                  d.info),
              "async_update", d.name, TransportName(d.transport))
    /\ UNCHANGED <<task, connected, buffer, listener, running, stop, api, call>>

\* arguments of the set-volume service
ArgPercents ==
    [a \in {"0.10", "0.50", "0.77", "1.50", "-0.50"} |->
        CASE a = "0.10" -> 10
          [] a = "0.50" -> 50
          [] a = "0.77" -> 77
          [] a = "1.50" -> 150
          [] a = "-0.50" -> -50]
VolumeArgs == [a \in DOMAIN ArgPercents |-> FromRatio(ArgPercents[a], 100)]

\* the fields after async_set_volume_level(v): the volume is stored as
\* given and int(v * 100) goes to the device
VolumeSet(p, v) ==
    [p EXCEPT !.volume = v, !.device_volume = Some(FToInt(FMulInt(v, 100)))]

AsyncSetVolumeLevel(a) ==
    /\ player.ops < MaxOps
    /\ player' = Did(VolumeSet(player, VolumeArgs[a]), "set_volume", a, "none")
    /\ UNCHANGED <<task, connected, buffer, listener, running, stop, api, call>>

AsyncVolumeUp ==
    /\ player.ops < MaxOps
    /\ player' = Did(VolumeSet(player, FMin(FOne, FAdd(player.volume, CONST_VOLUME_STEP))),
                     "volume_up", "none", "none")
    /\ UNCHANGED <<task, connected, buffer, listener, running, stop, api, call>>

AsyncVolumeDown ==
    /\ player.ops < MaxOps
    /\ player' = Did(VolumeSet(player, FMax(FZero, FSub(player.volume, CONST_VOLUME_STEP))),
                     "volume_down", "none", "none")
    /\ UNCHANGED <<task, connected, buffer, listener, running, stop, api, call>>

NextPlayer ==
    \/ \E m \in Messages : HandleSocketMessage(m)
    \/ \E power \in Powers, transport \in Transports : UpdateState(power, transport)
    \/ \E d \in Polls : AsyncUpdate(d)
    \/ \E a \in DOMAIN VolumeArgs : AsyncSetVolumeLevel(a)
    \/ AsyncVolumeUp
    \/ AsyncVolumeDown

SpecPlayer == Init /\ [][NextPlayer]_vars

(***************************************************************************)
(* The player's commands (NaimPlayer): SpecCommands.                       *)
(* Every HTTP request of a command is answered, fails with an              *)
(* aiohttp.ClientError, or runs into asyncio.TimeoutError.  A command is   *)
(* one action: it records the requests it made and the exception it left   *)
(* to its caller.                                                          *)
(***************************************************************************)
\* bound: commands and polling passes per behaviour
MaxCalls == 2

\* what becomes of one HTTP request
NetOutcomes == {"ok", "ClientError", "TimeoutError"}
\* the outcomes of the requests of a command, in order: at most one fails
Nets ==
    {<<"ok", "ok", "ok">>,
     <<"ClientError", "ok", "ok">>, <<"TimeoutError", "ok", "ok">>,
     <<"ok", "ClientError", "ok">>, <<"ok", "TimeoutError", "ok">>,
     <<"ok", "ok", "ClientError">>, <<"ok", "ok", "TimeoutError">>}

\* an HTTP request: PUT or GET of an endpoint, with one query parameter
Req(verb, endpoint, param, s, n) ==
    [verb |-> verb, endpoint |-> endpoint, param |-> param, s |-> s, n |-> n]
GetReq(endpoint) == Req("GET", endpoint, "", "", 0)

\* the end of a command: the fields, the requests made, the exception raised
Result(p, sent, raised) == [p |-> p, sent |-> sent, raised |-> raised]

\* async_get_current_value: the value read, None after a ClientError;
\* a TimeoutError is not caught
CurrentValue(o, v) == IF o = "ok" THEN v ELSE Absent

\* update_state() with the outcomes of its two requests
UpdateStateRun(p, o1, o2, d) ==
    LET power == IF o1 = "ok" THEN d.power ELSE None
    IN  IF o1 = "TimeoutError"
        THEN Result(p, <<GetReq("power")>>, "TimeoutError")
        ELSE IF power # "on"
        THEN Result(Updated(p, power, Absent), <<GetReq("power")>>, "none")
        ELSE IF o2 = "TimeoutError"
        THEN Result(p, <<GetReq("power"), GetReq("nowplaying")>>, "TimeoutError")
        ELSE Result(Updated(p, power, CurrentValue(o2, d.transport)),
                    <<GetReq("power"), GetReq("nowplaying")>>, "none")

\* a request inside try / except aiohttp.ClientError, then update_state():
\* async_turn_on, async_turn_off, async_media_play_pause
ThenUpdateState(p, req, net, d) ==
    IF net[1] = "TimeoutError" THEN Result(p, <<req>>, "TimeoutError")
    ELSE IF net[1] = "ClientError" THEN Result(p, <<req>>, "none")
    ELSE LET u == UpdateStateRun(p, net[2], net[3], d)
         IN  Result(u.p, <<req>> \o u.sent, u.raised)

\* a single request inside try / except aiohttp.ClientError; before holds
\* the fields when the request is sent, after the fields when it is answered
Guarded(before, req, o, after) ==
    IF o = "ok" THEN Result(after, <<req>>, "none")
    ELSE IF o = "ClientError" THEN Result(before, <<req>>, "none")
    ELSE Result(before, <<req>>, "TimeoutError")

\* async_set_volume_level(v)
SetVolumeRun(p, v, o) ==
    LET q == VolumeSet(p, v)
    IN  Guarded(q, Req("PUT", "levels/room", "volume", "", q.device_volume[1]), o, q)

\* int(not (int(current_mute) > 0))
MuteValue(mute, current) == IF current > 0 THEN 0 ELSE 1

\* async_mute_volume(mute), the device's mute being current
MuteRun(p, mute, current, net) ==
    IF net[1] = "TimeoutError"
    THEN Result(p, <<GetReq("levels/room")>>, "TimeoutError")
    ELSE IF CurrentValue(net[1], current).kind # "int"
    THEN Result(p, <<GetReq("levels/room")>>, "none")
    ELSE LET value == MuteValue(mute, current.n)
             r == Guarded(p, Req("PUT", "levels/room", "mute", "", value), net[2],
                          [p EXCEPT !.muted = (value # 0)])
         IN  Result(r.p, <<GetReq("levels/room")>> \o r.sent, r.raised)

\* source in self._source_list
KnownSource(source) == source \in DOMAIN SourceMap

\* another way to select: no look at the source list
SelectRunUnchecked(p, source, o) ==
    Guarded(p, Req("GET", "inputs", DictGet(SourceMap, source, source), "select", 0), o,
            [p EXCEPT !.source = source])

\* async_select_source(source)
SelectRun(p, source, o) ==
    IF ~KnownSource(source) THEN Result(p, <<>>, "none")
    ELSE Guarded(p, Req("GET", "inputs", SourceMap[source], "select", 0), o,
                 [p EXCEPT !.source = source])

\* the devices a command finds when it calls update_state()
CommandPolls == {Standby, OnPlaying}
\* the mute values of the device, the source names and seek positions asked
DeviceMutes == {IntVal(0), IntVal(1)}
SourceNames == {"Spotify", "Web Radio", "Invalid Source"}
SeekSeconds == {30}

\* a command runs from its call to its return or its exception
CallFree == call.count < MaxCalls /\ call.pc = "idle"
Called(op, arg, res, outcomes) ==
    [call EXCEPT !.op = op, !.arg = arg, !.count = @ + 1,
                 !.sent = res.sent, !.raised = res.raised,
                 !.clean = \A k \in 1..Len(res.sent) : outcomes[k] = "ok"]

TurnOn(net, d) ==
    LET res == ThenUpdateState(player, Req("PUT", "power", "system", "on", 0), net, d)
    IN  /\ CallFree
        /\ player' = res.p
        /\ call' = Called("turn_on", d.name, res, net)
        /\ UNCHANGED <<task, connected, buffer, listener, running, stop, api>>

TurnOff(net, d) ==
    LET res == ThenUpdateState(player, Req("PUT", "power", "system", "lona", 0), net, d)
    IN  /\ CallFree
        /\ player' = res.p
        /\ call' = Called("turn_off", d.name, res, net)
        /\ UNCHANGED <<task, connected, buffer, listener, running, stop, api>>

MediaPlayPause(net, d) ==
    LET res == ThenUpdateState(player, Req("GET", "nowplaying", "cmd", "playpause", 0),
                               net, d)
    IN  /\ CallFree
        /\ player' = res.p
        /\ call' = Called("play_pause", d.name, res, net)
        /\ UNCHANGED <<task, connected, buffer, listener, running, stop, api>>

MediaNextTrack(o) ==
    LET res == Guarded(player, Req("GET", "nowplaying", "cmd", "next", 0), o, player)
    IN  /\ CallFree
        /\ player' = res.p
        /\ call' = Called("next", "none", res, <<o>>)
        /\ UNCHANGED <<task, connected, buffer, listener, running, stop, api>>

MediaPreviousTrack(o) ==
    LET res == Guarded(player, Req("GET", "nowplaying", "cmd", "prev", 0), o, player)
    IN  /\ CallFree
        /\ player' = res.p
        /\ call' = Called("previous", "none", res, <<o>>)
        /\ UNCHANGED <<task, connected, buffer, listener, running, stop, api>>

\* async_media_seek(position): int(position * 1000) goes to the device
MediaSeek(position, o) ==
    LET res == Guarded(player,
                       Req("GET", "nowplaying", "cmd", "seek", position * 1000), o,
                       [player EXCEPT !.media_position = Some(FromRatio(position, 1))])
    IN  /\ CallFree
        /\ player' = res.p
        /\ call' = Called("seek", "none", res, <<o>>)
        /\ UNCHANGED <<task, connected, buffer, listener, running, stop, api>>

SetVolumeLevel(a, o) ==
    LET res == SetVolumeRun(player, VolumeArgs[a], o)
    IN  /\ CallFree
        /\ player' = res.p
        /\ call' = Called("set_volume", a, res, <<o>>)
        /\ UNCHANGED <<task, connected, buffer, listener, running, stop, api>>

VolumeUp(o) ==
    LET res == SetVolumeRun(player,
                            FMin(FOne, FAdd(player.volume, CONST_VOLUME_STEP)), o)
    IN  /\ CallFree
        /\ player' = res.p
        /\ call' = Called("volume_up", "none", res, <<o>>)
        /\ UNCHANGED <<task, connected, buffer, listener, running, stop, api>>

VolumeDown(o) ==
    LET res == SetVolumeRun(player,
                            FMax(FZero, FSub(player.volume, CONST_VOLUME_STEP)), o)
    IN  /\ CallFree
        /\ player' = res.p
        /\ call' = Called("volume_down", "none", res, <<o>>)
        /\ UNCHANGED <<task, connected, buffer, listener, running, stop, api>>

MuteVolume(mute, current, net) ==
    LET res == MuteRun(player, mute, current, net)
    IN  /\ CallFree
        /\ player' = res.p
        /\ call' = Called("mute", IF mute THEN "True" ELSE "False", res, net)
        /\ UNCHANGED <<task, connected, buffer, listener, running, stop, api>>

SelectSource(source, o) ==
    LET res == SelectRun(player, source, o)
    IN  /\ CallFree
        /\ player' = res.p
        /\ call' = Called("select_source", source, res, <<o>>)
        /\ UNCHANGED <<task, connected, buffer, listener, running, stop, api>>

NextCommands ==
    \/ \E net \in Nets, d \in CommandPolls : TurnOn(net, d)
    \/ \E net \in Nets, d \in CommandPolls : TurnOff(net, d)
    \/ \E net \in Nets, d \in CommandPolls : MediaPlayPause(net, d)
    \/ \E o \in NetOutcomes : MediaNextTrack(o)
    \/ \E o \in NetOutcomes : MediaPreviousTrack(o)
    \/ \E position \in SeekSeconds, o \in NetOutcomes : MediaSeek(position, o)
    \/ \E a \in DOMAIN VolumeArgs, o \in NetOutcomes : SetVolumeLevel(a, o)
    \/ \E o \in NetOutcomes : VolumeUp(o)
    \/ \E o \in NetOutcomes : VolumeDown(o)
    \/ \E mute \in BOOLEAN, current \in DeviceMutes, net \in Nets :
          MuteVolume(mute, current, net)
    \/ \E source \in SourceNames, o \in NetOutcomes : SelectSource(source, o)

SpecCommands == Init /\ [][NextCommands]_vars

(***************************************************************************)
(* The polling pass (NaimPlayer.async_update), request by request:         *)
(* SpecPoll.  The pass is suspended at each of its HTTP requests; push     *)
(* messages are handled, and the entity's fields are read, while it is.    *)
(* Each resumption assigns what the request returned and runs to the next  *)
(* request.                                                                *)
(***************************************************************************)
PollByName(name) == CHOOSE d \in Polls : d.name = name

\* the push messages that arrive during a pass
PollPushes == {FullMsg, VolumeOnlyMsg}

\* async_update() runs up to its first request, power/system
AsyncUpdateBegin(d) ==
    /\ CallFree
    /\ call' = [call EXCEPT !.op = "async_update", !.arg = d.name, !.pc = "power",
                            !.count = @ + 1, !.sent = <<GetReq("power")>>,
                            !.raised = "none", !.clean = TRUE, !.written = {},
                            !.at = player.ops]
    /\ UNCHANGED <<task, connected, buffer, listener, running, stop, api, player>>

\* the request the pass makes after the one at pc is answered with value v;
\* "idle" when the pass is over
NextRequest(pc, v) ==
    CASE pc = "power" -> IF v = "on" THEN "transportState" ELSE "volume"
      [] pc = "transportState" -> "volume"
      [] pc = "volume" -> "mute"
      [] pc = "mute" -> "title"
      [] pc = "title" -> "artistName"
      [] pc = "artistName" -> "albumName"
      [] pc = "albumName" -> "duration"
      [] pc = "duration" -> "transportPosition"
      [] pc = "transportPosition" -> "artwork"
      [] pc = "artwork" -> "source"
      [] pc = "source" -> "idle"

\* the endpoint of a request of the pass
Endpoint(pc) ==
    IF pc = "power" THEN "power"
    ELSE IF pc \in {"volume", "mute"} THEN "levels/room"
    ELSE "nowplaying"

\* the fields after the request at pc is answered from device d, and the
\* names of the fields assigned
Resumed(p, pc, d) ==
    CASE pc = "power" ->
            IF d.power = "lona" THEN [p |-> [p EXCEPT !.state = "off"], w |-> {"state"}]
            ELSE [p |-> p, w |-> {}]
      [] pc = "transportState" ->
            [p |-> Updated(p, "on", d.transport), w |-> {"state"}]
      [] pc = "volume" ->
            [p |-> ApplyVolume(p, d), w |-> IF d.volume.kind = "int" THEN {"volume"} ELSE {}]
      [] pc = "mute" ->
            [p |-> ApplyMute(p, d), w |-> IF d.mute.kind = "int" THEN {"muted"} ELSE {}]
      [] pc = "title" ->
            [p |-> [p EXCEPT !.media_title = PyStr(d.info.title)], w |-> {"media_title"}]
      [] pc = "artistName" ->
            [p |-> [p EXCEPT !.media_artist = PyStr(d.info.artistName)],
             w |-> {"media_artist"}]
      [] pc = "albumName" ->
            [p |-> [p EXCEPT !.media_album_name = PyStr(d.info.albumName)],
             w |-> {"media_album_name"}]
      [] pc = "duration" ->
            [p |-> [p EXCEPT !.media_duration = PyNumber(d.info.duration)],
             w |-> {"media_duration"}]
      [] pc = "transportPosition" ->
            [p |-> [p EXCEPT !.media_position = PyNumber(d.info.transportPosition)],
             w |-> {"media_position"}]
      [] pc = "artwork" ->
            [p |-> [p EXCEPT !.media_image_url = PyStr(d.info.artwork)],
             w |-> {"media_image_url"}]
      [] pc = "source" ->
            [p |-> [p EXCEPT !.source = MediaInfoUpdated(p, d.info).source],
             w |-> {"source"}]

\* the pending request of the pass is answered and the pass runs on to its
\* next request, or to its end
AsyncUpdateResume ==
    LET d == PollByName(call.arg)
        r == Resumed(player, call.pc, d)
        next == NextRequest(call.pc, d.power)
    IN  /\ call.op = "async_update"
        /\ call.pc # "idle"
        /\ player' = r.p
        /\ call' = [call EXCEPT !.pc = next,
                                !.at = player.ops,
                                !.written = @ \cup r.w,
                                !.sent = IF next = "idle" THEN @
                                         ELSE Append(@, GetReq(Endpoint(next)))]
        /\ UNCHANGED <<task, connected, buffer, listener, running, stop, api>>

NextPoll ==
    \/ \E d \in Polls : AsyncUpdateBegin(d)
    \/ AsyncUpdateResume
    \/ \E m \in PollPushes : HandleSocketMessage(m)

SpecPoll == Init /\ [][NextPoll]_vars

(***************************************************************************)
(* Properties of the stream client (Spec).                                 *)
(***************************************************************************)
AllObjects(frames) == \A i \in 1..Len(frames) : frames[i] \in JsonObjects

\* the listener of task t holds an open connection
Holding(t) == listener[t].pc \in {"reading", "handling"}

\* the text read from the connection of task t so far is the messages
\* dispatched on it, in order, followed by the buffer: nothing is lost,
\* reordered or prepended
Conserved(t) ==
    LET r == listener[t]
        all == Utf8Encode(Flatten(r.sent))
    IN  Utf8Encode(Flatten(r.handled) \o buffer)
            = SubSeq(all, 1, Len(all) - Len(r.wire))

\* C1: on a connection that carries only concatenated JSON objects, however
\* its bytes are split into reads, the listener does not give the connection
\* up over the data, dispatches the objects in order and unchanged, and has
\* dispatched all of them once every byte is read and the handler is back
C1_EveryObjectDispatched ==
    \A t \in Tasks :
        LET r == listener[t]
        IN  (/\ r.pc \in {"reading", "handling", "closing"}
             /\ ~r.unwinding
             /\ AllObjects(r.sent)
             /\ r.cause \in {"none", "decodeerr"})
            => /\ r.cause # "decodeerr"
               /\ IsPrefix(r.handled, r.sent)
               /\ (r.pc = "reading" /\ r.wire = <<>>) => r.handled = r.sent

\* C2: the buffer is empty whenever open_connection is awaited, and on an
\* open connection the buffer and the dispatched messages hold text of that
\* connection only
C2_BufferEmptyAtConnect ==
    \A t \in Tasks :
        /\ listener[t].pc = "connecting" => buffer = <<>>
        /\ Holding(t) => Conserved(t)

\* C2 witness: an attempt begins when the buffer held text of the previous
\* connection
C2_Witness ==
    \E t \in Tasks :
        /\ listener[t].pc = "connecting"
        /\ listener[t].stale
        /\ listener[t].gap = 1

\* C3: every connection attempt but a task's first comes after exactly one
\* sleep since the previous attempt ended
C3_OneSleepBetweenAttempts ==
    \A t \in Tasks :
        LET r == listener[t]
        IN  /\ r.pc = "connecting" =>
                  \/ r.gap = -1 /\ r.cause = "none"
                  \/ r.gap = 1 /\ r.cause # "none"
            /\ r.pc = "sleeping" => r.sleeps = 1

\* C3 witness: the attempt after a peer close, one sleep later
C3_Witness ==
    \E t \in Tasks :
        /\ listener[t].pc = "connecting"
        /\ listener[t].cause = "eof"
        /\ listener[t].gap = 1

\* C4: no exception ends the listener: a task that has ended was cancelled,
\* and after an attempt has ended for any reason the task is closing the
\* socket, sleeping or connecting again
C4_OnlyCancellationEnds ==
    \A t \in Tasks :
        LET r == listener[t]
        IN  /\ r.exit # "error"
            /\ r.pc = "done" => r.exit = "cancelled"
            /\ (r.cause \notin {"none", "handlerjson"} /\ ~r.unwinding)
                  => r.pc \in {"closing", "sleeping", "connecting"}

\* C4 witness: a new attempt after a chunk failed to decode
C4_Witness ==
    \E t \in Tasks :
        /\ listener[t].pc = "connecting"
        /\ listener[t].cause = "decodeerr"

\* C5: stop() never raises; it cancels the task exactly when there is a task
\* that has not finished, and then waits for it
C5_StopAlwaysReturns ==
    /\ stop.outcome # "raised"
    /\ stop.saw \in {"notask", "finished"} =>
          ~stop.cancelled /\ stop.pc = "idle" /\ stop.outcome = "returned"
    /\ stop.saw = "running" => stop.cancelled
    /\ stop.outcome \in {"done", "timeout", "error"} =>
          stop.pc = "idle" /\ stop.cancelled

\* C5 witness: stop() has returned after asyncio.wait raised
C5_Witness == stop.pc = "idle" /\ stop.outcome = "error"

\* C6: a cancelled listener does not leave a socket open when it ends, and
\* once the stop() that cancelled it has returned it begins no attempt,
\* reads nothing and dispatches nothing
C6_NothingAfterStop ==
    \A t \in Tasks :
        LET r == listener[t]
        IN  /\ ~r.late
            /\ r.pc = "done" => r.writer # "open"
            /\ (r.stopped /\ ~r.cancelReq) =>
                  \/ r.pc = "done"
                  \/ r.pc = "closing" /\ r.unwinding /\ r.writer = "closed"

\* C6 witness: stop() has returned on its timeout while the cancelled
\* listener, having closed its socket, still waits for the close to finish
C6_Witness ==
    \E t \in Tasks :
        /\ listener[t].stopped
        /\ listener[t].pc = "closing"
        /\ listener[t].unwinding
        /\ stop.outcome = "timeout"

\* C7: a listener that sleeps before its next attempt holds no open socket,
\* and a close that raised leaves it sleeping, not ended
C7_ClosedBeforeRetry ==
    \A t \in Tasks :
        LET r == listener[t]
        IN  /\ r.pc \in {"sleeping", "connecting", "created"} =>
                  r.writer # "open"
            /\ r.writer = "closefailed" => r.pc = "sleeping"

\* C7 witness: the listener sleeps after close() or wait_closed() raised
C7_Witness ==
    \E t \in Tasks :
        /\ listener[t].pc = "sleeping"
        /\ listener[t].writer = "closefailed"
        /\ ~listener[t].cancelReq

\* C8: at most one handler invocation is running, a listener awaits it, no
\* listener reads meanwhile, and the messages dispatched on a connection are
\* the frames completed on it, in order
C8_HandlerAwaited ==
    /\ Len(running) <= 1
    /\ Len(running) = Cardinality({t \in Tasks : listener[t].pc = "handling"})
    /\ \A t \in Tasks :
          /\ listener[t].pc = "reading" => running = <<>>
          /\ Holding(t) =>
                /\ IsPrefix(Flatten(listener[t].handled),
                            Flatten(listener[t].sent))
                /\ AllObjects(listener[t].sent) =>
                      IsPrefix(listener[t].handled, listener[t].sent)

\* C8 witness: the handler runs on one message while the next complete
\* object waits in the buffer
C8_Witness ==
    \E t \in Tasks :
        /\ listener[t].pc = "handling"
        /\ Len(running) = 1
        /\ RawDecode(buffer) > 0

(***************************************************************************)
(* Properties of the control client (SpecApi).                             *)
(***************************************************************************)
Range(seq) == {seq[i] : i \in 1..Len(seq)}

\* the outcomes after which the code tries again
Retryable == Outcomes \ {HttpOk, "clienterror"}

\* C9: while every attempt ends in a timeout or a status other than 200,
\* attempt i is followed by a sleep of 2^i unless it is the last one, the
\* call does not return, and it raises NaimConnectionError after exactly
\* max_retries requests and max_retries - 1 sleeps
C9_RetriesThenRaises ==
    Range(api.resps) \subseteq Retryable =>
        /\ api.pc # "returned"
        /\ Len(api.resps) <= api.maxRetries
        /\ \A i \in 1..Len(api.sleeps) : api.sleeps[i] = 2 ^ (i - 1)
        /\ api.pc = "request" =>
              Len(api.resps) = api.retry /\ Len(api.sleeps) = api.retry
        /\ api.pc = "sleeping" =>
              /\ Len(api.resps) = api.retry + 1
              /\ Len(api.sleeps) = api.retry + 1
              /\ api.retry + 1 < api.maxRetries
        /\ api.pc = "raised" =>
              /\ api.result = "exhausted"
              /\ Len(api.resps) = api.maxRetries
              /\ Len(api.sleeps) = IF api.maxRetries = 0 THEN 0
                                   ELSE api.maxRetries - 1

\* C9 witness: three attempts, a timeout and two error statuses, sleeps of
\* 1 and 2 seconds, then the error
C9_Witness ==
    /\ api.pc = "raised"
    /\ api.maxRetries = 3
    /\ api.resps = <<"timeout", "500", "204">>
    /\ api.sleeps = <<1, 2>>
    /\ api.result = "exhausted"

LastResp == IF api.resps = <<>> THEN "none" ELSE api.resps[Len(api.resps)]

TwoXX == {"200", "204"}

\* C12: set_value and send_command return True on a response with any 2xx
\* status, without a further attempt
C12_Any2xxReturnsTrue ==
    (api.op \in {"set", "cmd"} /\ LastResp \in TwoXX) =>
        api.pc = "returned" /\ api.value = "True"

(***************************************************************************)
(* Properties of the player entity (SpecPlayer).                           *)
(***************************************************************************)
\* C13: whenever power is OFF the effective state is OFF: the player never
\* reports PLAYING or PAUSED (or anything but OFF) while power is OFF.
C13_PowerOffWins ==
    player.state = "off" => State(player) = "off"

\* C14: after update_state() on a player whose transport from push messages
\* is still IDLE (none has arrived), power 'lona' gives effective state OFF,
\* power 'on' with polled transport PLAYING gives PLAYING, PAUSED gives
\* PAUSED, and STOPPED or a missing transport value gives ON.
C14_UpdateStateMapping ==
    (player.last.op = "update_state" /\ player.playing_state = "idle") =>
        /\ player.last.arg = "lona" => State(player) = "off"
        /\ player.last.arg = "on" =>
              State(player) = IF player.last.polled = "PLAYING" THEN "playing"
                              ELSE IF player.last.polled = "PAUSED" THEN "paused"
                              ELSE "on"

\* C15: the stored volume lies within [0.0, 1.0] in every reachable state.
C15_VolumeInRange ==
    ~FLess(player.volume, FZero) /\ ~FLess(FOne, player.volume)

\* the volume grid: the multiples of the step from 0.00 to 1.00, as the
\* floats nearest to them, and the percent values of the grid
GridSteps == 0..20
Grid(k) == FromRatio(5 * k, 100)
OnGrid(v) == \E k \in GridSteps : v = Grid(k)
GridIndex(v) == CHOOSE k \in GridSteps : v = Grid(k)
Clamp(n, lo, hi) == IF n < lo THEN lo ELSE IF n > hi THEN hi ELSE n
\* the grid step nearest to n percent, a midpoint going up
NearestStep(n) == (2 * Clamp(n, 0, 100) + 5) \div 10

\* C16: async_set_volume_level(v) stores, and sends to the device as integer
\* percent, v clamped to [0,1] and rounded to the nearest multiple of the
\* volume step, so the stored volume is on the grid after every set.
C16_SetVolumeClampsAndRounds ==
    player.last.op = "set_volume" =>
        /\ player.volume = Grid(NearestStep(ArgPercents[player.last.arg]))
        /\ player.device_volume = Some(5 * NearestStep(ArgPercents[player.last.arg]))
        /\ OnGrid(player.volume)

\* C17: from a volume on the 0.05 grid, volume_up stores the next grid value
\* and volume_down the previous one, clamped at 1.00 and 0.00; so an up
\* followed by a down returns exactly to the start, and any sequence of
\* up/down calls keeps the stored volume on the grid.
C17_StepsStayOnGrid ==
    [][(player'.ops = player.ops + 1 /\ OnGrid(player.volume)) =>
          /\ player'.last.op = "volume_up" =>
                player'.volume = Grid(Clamp(GridIndex(player.volume) + 1, 0, 20))
          /\ player'.last.op = "volume_down" =>
                player'.volume = Grid(Clamp(GridIndex(player.volume) - 1, 0, 20))]_vars

\* the push message of the step that has just been taken
MsgByName(name) == CHOOSE m \in Messages : m.name = name
PushStep == player'.ops = player.ops + 1 /\ player'.last.op = "push"

\* C18: a push message leaves unchanged every state field it does not carry:
\* a message with only senderVolume, or only a transport state, clears none
\* of title, artist, album, image URL, duration, position, mute and source.
C18_AbsentFieldsKept ==
    [][PushStep =>
          LET m == MsgByName(player'.last.arg)
          IN  /\ m.title.kind = "absent" => player'.media_title = player.media_title
              /\ m.artist.kind = "absent" => player'.media_artist = player.media_artist
              /\ m.album.kind = "absent" =>
                    player'.media_album_name = player.media_album_name
              /\ m.icon.kind = "absent" =>
                    player'.media_image_url = player.media_image_url
              /\ m.duration.kind = "absent" =>
                    player'.media_duration = player.media_duration
              /\ m.playTime.kind = "absent" =>
                    player'.media_position = player.media_position
              /\ m.state.kind = "absent" =>
                    player'.playing_state = player.playing_state
              /\ m.volume.kind = "absent" => player'.volume = player.volume
              /\ m.mute.kind = "absent" => player'.muted = player.muted
              /\ m.contextPath.kind = "absent" => player'.source = player.source]_vars

\* C19: _handle_socket_message always returns, and a message it cannot
\* process completely (text that is not a JSON object, a non-numeric playTime,
\* senderVolume or senderMute) leaves every field of the player as it was.
C19_BadMessageAppliesNothing ==
    [][(PushStep /\ Unprocessable(MsgByName(player'.last.arg))) =>
          Fields(player') = Fields(player)]_vars

\* a message that carries state, title, icon, artist, album, duration and
\* playTime
CarriesTrack(m) ==
    /\ m.json = "object"
    /\ m.state.kind = "str" /\ m.state.s \in {"playing", "paused", "stopped"}
    /\ m.title.kind = "str" /\ m.icon.kind = "str"
    /\ m.artist.kind = "str" /\ m.album.kind = "str"
    /\ m.duration.kind = "int" /\ m.playTime.kind = "int"

\* C20: after a push message that carries state, title, icon, artist, album,
\* status.duration and playTime, the transport is the mapped state (playing
\* to PLAYING, paused to PAUSED, stopped to IDLE), title, artist, album and
\* image URL are the given strings, and duration and position are the
\* millisecond values divided by 1000.
C20_FullMessageApplied ==
    (player.last.op = "push" /\ CarriesTrack(MsgByName(player.last.arg))) =>
        LET m == MsgByName(player.last.arg)
        IN  /\ player.playing_state = IF m.state.s = "playing" THEN "playing"
                                      ELSE IF m.state.s = "paused" THEN "paused"
                                      ELSE "idle"
            /\ player.media_title = m.title.s
            /\ player.media_artist = m.artist.s
            /\ player.media_album_name = m.album.s
            /\ player.media_image_url = m.icon.s
            /\ player.media_duration = Some(FromRatio(m.duration.n, 1000))
            /\ player.media_position = Some(FromRatio(m.playTime.n, 1000))
            /\ m.name = "full" =>
                  /\ player.media_duration = Some(FromRatio(300, 1))
                  /\ player.media_position = Some(FromRatio(60, 1))

\* the test message of the repository arrives after another track was shown
C20_Witness ==
    /\ player.last.op = "push" /\ player.last.arg = "full" /\ player.ops = 2
    /\ player.playing_state = "playing"
    /\ player.media_title = "Test Song"
    /\ player.media_artist = "Test Artist"
    /\ player.media_album_name = "Test Album"
    /\ player.media_image_url = "http://example.com/image.jpg"
    /\ player.media_duration = Some(FromRatio(300, 1))
    /\ player.media_position = Some(FromRatio(60, 1))

\* C21: a push message whose state string is not one of playing, paused,
\* stopped sets the transport state to IDLE.
C21_UnknownStateIsIdle ==
    LET m == MsgByName(player.last.arg)
    IN  (/\ player.last.op = "push"
         /\ m.json = "object" /\ m.state.kind = "str"
         /\ m.state.s \notin DOMAIN TRANSPORT_STATES_STRING_LOOKUP)
            => player.playing_state = "idle"

\* C22: a push message the handler processes to its end sets source to
\* 'Spotify' when its contextPath starts with 'spotify', stores any other
\* contextPath as it is, and leaves source unchanged when it has none.
C22_SourceFromContextPath ==
    [][(PushStep /\ ~Unprocessable(MsgByName(player'.last.arg))) =>
          LET m == MsgByName(player'.last.arg)
          IN  player'.source =
                IF m.contextPath.kind # "str" THEN player.source
                ELSE IF m.contextPath.s \in {"spotify", "spotify:playlist"}
                THEN "Spotify"
                ELSE m.contextPath.s]_vars

\* the repository's test message arrives while another source is shown
C22_Witness ==
    /\ player.last.op = "push" /\ player.last.arg = "full"
    /\ player.ops = 2 /\ player.source = "Spotify"
    /\ player.media_title = "Test Song"

\* C24: a polling pass that finds the device unreachable (every request
\* fails or is answered non-200) keeps every field at its previous value:
\* power, volume, mute, source and every track field; none is reset to None.
C24_UnreachableKeepsState ==
    [][(/\ player'.ops = player.ops + 1
        /\ player'.last.op = "async_update"
        /\ player'.last.arg = "unreachable") =>
          Fields(player') = Fields(player)]_vars

(***************************************************************************)
(* Properties of the player's commands (SpecCommands).                     *)
(***************************************************************************)
\* C25: no high-level command raises to its caller when its HTTP request
\* fails, whether by a connection error or by a timeout.
C25_CommandsNeverRaise == call.raised = "none"

\* the command that has just run
CommandStep(op) == call'.count = call.count + 1 /\ call'.op = op

\* C26: after async_mute_volume(m) has completed without error, the device has
\* been sent mute=1 when m is true and mute=0 when m is false, and the stored
\* muted flag equals m, whatever the mute state of the device was before.
C26_MuteAsAsked ==
    (call.op = "mute" /\ call.raised = "none" /\ call.clean) =>
        /\ Len(call.sent) = 2
        /\ call.sent[2] = Req("PUT", "levels/room", "mute", "",
                              IF call.arg = "True" THEN 1 ELSE 0)
        /\ player.muted = (call.arg = "True")

\* C27: async_select_source with a name that is not in source_list sends no
\* request and leaves source unchanged; with a name in source_list it
\* requests inputs/{id}?cmd=select for the id of that name, and once the
\* request is answered source is that name.
C27_SelectSource ==
    [][CommandStep("select_source") =>
          IF call'.arg \in {"Analog 1", "Digital 1", "Digital 2", "Digital 3",
                            "Bluetooth", "Web Radio", "Spotify"}
          THEN /\ call'.sent = <<Req("GET", "inputs",
                                     IF call'.arg = "Spotify" THEN "spotify"
                                     ELSE IF call'.arg = "Web Radio" THEN "radio"
                                     ELSE SourceMap[call'.arg],
                                     "select", 0)>>
               /\ call'.clean => player'.source = call'.arg
          ELSE call'.sent = <<>> /\ player'.source = player.source]_vars

\* Web Radio is selected after another source
C27_Witness ==
    /\ call.op = "select_source" /\ call.arg = "Web Radio" /\ call.count = 2
    /\ call.sent = <<Req("GET", "inputs", "radio", "select", 0)>>
    /\ call.clean /\ player.source = "Web Radio"

(***************************************************************************)
(* Properties of the polling pass (SpecPoll).                              *)
(***************************************************************************)
\* C23: all fields written by one polling pass become visible together: while
\* the pass is suspended on an HTTP request, where a reader or a push handler
\* can run, none of its fields has been assigned yet.
C23_PassAppliedTogether ==
    (call.op = "async_update" /\ call.pc # "idle") => call.written = {}

(***************************************************************************)
(* Properties of the stream client (Spec): handler errors, whitespace and  *)
(* conservation of the stream.                                             *)
(***************************************************************************)
\* C28: an exception raised by the message handler does not end the read
\* loop: a listener whose handler has raised still holds its connection
C28_HandlerErrorKeepsConnection ==
    \A t \in Tasks :
        listener[t].cause \in {"handlererr", "handlerjson"} => Holding(t)

\* the JSON objects among the frames sent, in order
IsObject(f) == f \in JsonObjects
ObjectsOf(frames) == SelectSeq(frames, IsObject)

\* C29: on a connection that carries JSON objects preceded, separated or
\* followed by whitespace, every object is dispatched once every byte is
\* read and the handler is back
C29_WhitespaceNeverStalls ==
    \A t \in Tasks :
        LET r == listener[t]
        IN  (/\ r.pc = "reading"
             /\ r.cause = "none"
             /\ r.wire = <<>>
             /\ \A i \in 1..Len(r.sent) : r.sent[i] \in JsonObjects \cup {Blank})
            => r.handled = ObjectsOf(r.sent)

\* the buffer begins with a character no JSON value begins with: raw_decode
\* fails on it whatever is appended
StuckPrefix(buf) == buf # <<>> /\ buf[1] \in {"}", " "}

\* C30: on an open connection, after every step, the messages dispatched
\* followed by the buffer are the text read so far; and once the buffer
\* begins with a prefix that cannot become valid JSON, a step that keeps the
\* connection dispatches nothing more and leaves every character of the
\* buffer in place
C30_StreamConserved ==
    [][\A t \in Tasks :
          /\ Holding(t)' => Conserved(t)'
          /\ (Holding(t) /\ Holding(t)' /\ StuckPrefix(buffer)) =>
                /\ listener'[t].handled = listener[t].handled
                /\ IsPrefix(buffer, buffer')]_vars

\* C30 witness: junk and then an object have been read whole on an open
\* connection; nothing of it was dispatched and the buffer holds all of it
C30_Witness ==
    \E t \in Tasks :
        /\ listener[t].pc = "reading"
        /\ listener[t].sent = <<Junk, ObjEmpty>>
        /\ listener[t].wire = <<>>
        /\ listener[t].handled = <<>>
        /\ buffer = Junk \o ObjEmpty

(***************************************************************************)
(* start() called while a listener started earlier is still running.       *)
(***************************************************************************)
\* start(), lines 29-31, called again with no stop() in between: the new
\* task replaces the old one in self._task, and the old one runs on
StartAgain ==
    /\ task >= 1
    /\ task < MaxStarts
    /\ stop.pc = "idle"
    /\ ~listener[task].stopped
    /\ task' = task + 1
    /\ listener' = [listener EXCEPT ![task + 1] = [NoTask EXCEPT !.pc = "created"]]
    /\ stop' = IdleStop
    /\ UNCHANGED <<connected, buffer, running, api, player, call>>

\* the calls of start() and stop() and the listeners' steps on connections
\* that open, carry whole objects and are closed by the peer
NextStarts ==
    \/ Start
    \/ StartAgain
    \/ StopCall
    \/ StopWaitDone
    \/ \E t \in Tasks : BeginAttempt(t)
    \/ \E t \in Tasks : OpenConnectionOK(t)
    \/ \E t \in Tasks : DeviceSend(t, ObjEmpty)
    \/ \E t \in Tasks, n \in 1..MaxRead : ReaderRead(t, n, TRUE)
    \/ \E t \in Tasks : ReaderEOF(t, TRUE)
    \/ HandlerReturn
    \/ \E t \in Tasks : WaitClosed(t, TRUE)
    \/ \E t \in Tasks : DeliverCancel(t, TRUE)

SpecStarts == Init /\ [][NextStarts]_vars

\* C31: at any time at most one listener task of the instance has not
\* finished, and at most one holds an open connection
C31_OneListener ==
    /\ Cardinality({t \in Tasks : Live(t)}) <= 1
    /\ Cardinality({t \in Tasks : listener[t].writer = "open"}) <= 1

(***************************************************************************)
(* NaimWebSocket._socket_listener (websocket.py, lines 37-89) and          *)
(* NaimPlayer._socket_listener (media_player.py, lines 140-193): the same  *)
(* loop, the second with its buffer in a local variable set once before    *)
(* the loop.  The listener is task 1; it uses the fields of the listener   *)
(* record as NaimWebSocketClient does.                                     *)
(***************************************************************************)
\* the most text the buffer and the wire hold together
MaxHeld == 5

\* the top of the loop, websocket.py lines 41-44: the next attempt begins;
\* nothing assigns the buffer
WsAgain(r, buf) ==
    [r EXCEPT !.pc = "connecting", !.writer = "none", !.gap = r.sleeps,
              !.stale = (buf # <<>>), !.sleeps = 0, !.sent = <<>>,
              !.handled = <<>>, !.wire = <<>>]

\* the read loop is left by a break (lines 53, 68) for cause c; the finally
\* of lines 82-89 closes the writer, and an error of the close is caught
WsLeave(r, c, closeOK, buf) ==
    IF closeOK
    THEN [r EXCEPT !.cause = c, !.wire = <<>>, !.writer = "closed",
                   !.pc = "closing"]
    ELSE WsAgain([r EXCEPT !.cause = c], buf)

\* start(), lines 22-24, and the listener up to the await of line 44
WsStart ==
    /\ task = 0
    /\ task' = 1
    /\ listener' = [listener EXCEPT ![1] = [NoTask EXCEPT !.pc = "connecting"]]
    /\ UNCHANGED <<connected, buffer, running, stop, api, player, call>>

\* lines 44-46: open_connection returns
WsOpenOK ==
    LET r == listener[1]
    IN  /\ r.pc = "connecting"
        /\ connected' = TRUE
        /\ listener' = [listener EXCEPT ![1] =
              [r EXCEPT !.pc = "reading", !.writer = "open", !.cause = "none",
                        !.gap = -1, !.stale = FALSE]]
        /\ UNCHANGED <<task, buffer, running, stop, api, player, call>>

\* lines 44, 70-80: open_connection raises; the listener sleeps
WsOpenFail ==
    LET r == listener[1]
    IN  /\ r.pc = "connecting"
        /\ connected' = FALSE
        /\ listener' = [listener EXCEPT ![1] =
              [r EXCEPT !.pc = "sleeping", !.cause = "refused",
                        !.sleeps = r.sleeps + 1, !.gap = -1, !.stale = FALSE]]
        /\ UNCHANGED <<task, buffer, running, stop, api, player, call>>

\* line 80 returns; lines 82-84 find no writer, and the loop starts again
WsSleepDone ==
    LET r == listener[1]
    IN  /\ r.pc = "sleeping"
        /\ connected' = FALSE
        /\ listener' = [listener EXCEPT ![1] = WsAgain(r, buffer)]
        /\ UNCHANGED <<task, buffer, running, stop, api, player, call>>

\* the device writes one frame to the open connection
WsDeviceSend(f) ==
    LET r == listener[1]
    IN  /\ r.pc \in {"reading", "handling"}
        /\ Len(r.sent) < MaxMsgs
        /\ Len(buffer) + Len(r.wire) + Len(Utf8Encode(f)) <= MaxHeld
        /\ listener' = [listener EXCEPT ![1] =
              [r EXCEPT !.sent = Append(r.sent, f),
                        !.wire = r.wire \o Utf8Encode(f)]]
        /\ UNCHANGED <<task, connected, buffer, running, stop, api, player, call>>

\* lines 50-68: reader.read returns the next n bytes
WsRead(n, closeOK) ==
    LET r == listener[1]
        d == Utf8Decode(SubSeq(r.wire, 1, n))
        rest == SubSeq(r.wire, n + 1, Len(r.wire))
        lp == DecodeLoop(buffer \o d.text)
    IN  /\ r.pc = "reading"
        /\ n \in 1..Len(r.wire)
        /\ n <= MaxRead
        /\ IF d.ok
           THEN /\ buffer' = lp.buffer
                /\ running' = running \o lp.msgs
                /\ listener' = [listener EXCEPT ![1] =
                      [r EXCEPT !.wire = rest,
                                !.handled = r.handled \o lp.msgs,
                                !.pc = IF lp.await THEN "handling"
                                       ELSE "reading"]]
                /\ closeOK
                /\ UNCHANGED connected
           ELSE /\ connected' = FALSE
                /\ listener' = [listener EXCEPT ![1] =
                      WsLeave(r, "decodeerr", closeOK, buffer)]
                /\ UNCHANGED <<buffer, running>>
        /\ UNCHANGED <<task, stop, api, player, call>>

\* lines 51-53: reader.read returns b"" once the peer has closed
WsEOF(closeOK) ==
    LET r == listener[1]
    IN  /\ r.pc = "reading"
        /\ r.wire = <<>>
        /\ connected' = FALSE
        /\ listener' = [listener EXCEPT ![1] = WsLeave(r, "eof", closeOK, buffer)]
        /\ UNCHANGED <<task, buffer, running, stop, api, player, call>>

\* lines 50, 66-68: reader.read raises
WsReadError(closeOK) ==
    LET r == listener[1]
    IN  /\ r.pc = "reading"
        /\ connected' = FALSE
        /\ listener' = [listener EXCEPT ![1] =
              WsLeave(r, "readerr", closeOK, buffer)]
        /\ UNCHANGED <<task, buffer, running, stop, api, player, call>>

\* line 62 returns, and the loop of line 56 goes round again
WsHandlerReturn ==
    LET r == listener[1]
        lp == DecodeLoop(buffer)
    IN  /\ r.pc = "handling"
        /\ running # <<>>
        /\ buffer' = lp.buffer
        /\ running' = Tail(running) \o lp.msgs
        /\ listener' = [listener EXCEPT ![1] =
              [r EXCEPT !.handled = r.handled \o lp.msgs,
                        !.pc = IF lp.await THEN "handling" ELSE "reading"]]
        /\ UNCHANGED <<task, connected, stop, api, player, call>>

\* line 62 raises: a JSONDecodeError leaves the loop of line 56 (line 63), any
\* other exception the read loop (line 66)
WsHandlerRaise(e, closeOK) ==
    LET r == listener[1]
    IN  /\ r.pc = "handling"
        /\ running' = Tail(running)
        /\ IF e = "JSONDecodeError"
           THEN /\ closeOK
                /\ listener' = [listener EXCEPT ![1] =
                      [r EXCEPT !.pc = "reading", !.cause = "handlerjson"]]
                /\ UNCHANGED connected
           ELSE /\ connected' = FALSE
                /\ listener' = [listener EXCEPT ![1] =
                      WsLeave(r, "handlererr", closeOK, buffer)]
        /\ UNCHANGED <<task, buffer, stop, api, player, call>>

\* lines 87-89: wait_closed returns or raises, and the loop starts again
WsClosed(ok) ==
    LET r == listener[1]
    IN  /\ r.pc = "closing"
        /\ listener' = [listener EXCEPT ![1] =
              WsAgain([r EXCEPT !.writer = IF ok THEN "closed"
                                           ELSE "closefailed"], buffer)]
        /\ UNCHANGED <<task, connected, buffer, running, stop, api, player, call>>

NextWs ==
    \/ WsStart
    \/ WsOpenOK
    \/ WsOpenFail
    \/ WsSleepDone
    \/ \E f \in Frames : WsDeviceSend(f)
    \/ \E n \in 1..MaxRead, closeOK \in BOOLEAN : WsRead(n, closeOK)
    \/ \E closeOK \in BOOLEAN : WsEOF(closeOK)
    \/ \E closeOK \in BOOLEAN : WsReadError(closeOK)
    \/ WsHandlerReturn
    \/ \E e \in HandlerErrors, closeOK \in BOOLEAN : WsHandlerRaise(e, closeOK)
    \/ \E ok \in BOOLEAN : WsClosed(ok)

SpecWs == Init /\ [][NextWs]_vars

(***************************************************************************)
(* Properties of the older listeners (SpecWs).                             *)
(***************************************************************************)
\* C32: every connection attempt of the listener but its first comes after
\* a sleep of reconnect_interval since the previous attempt ended
C32_SleepBeforeEveryAttempt ==
    listener[1].pc = "connecting" =>
        listener[1].gap = -1 \/ listener[1].gap >= 1

\* C33: on an open connection the buffer and the dispatched messages hold
\* text of that connection only: what a previous connection left in the
\* buffer is gone before the first bytes are appended
C33_PartialFrameDiscarded ==
    listener[1].pc \in {"reading", "handling"} => Conserved(1)

(***************************************************************************)
(* Properties of the player's stored state (SpecPlayer, SpecPoll,          *)
(* SpecCommands).                                                          *)
(***************************************************************************)
\* C34: the stored power field _state holds only OFF or ON; PLAYING, PAUSED
\* and IDLE are stored in the transport field _playing_state only
C34_PowerIsOffOrOn == player.state \in {"off", "on"}

\* C35: a value that a push message wrote while a request of the polling pass
\* was pending is not replaced by what that request returns: the pass, when
\* it resumes, leaves the volume and the title that the push wrote
C35_PushNotOverwritten ==
    [][(/\ call.op = "async_update"
        /\ call.pc # "idle"
        /\ call'.pc # call.pc
        /\ player.ops > call.at
        /\ player.last.op = "push") =>
          LET m == MsgByName(player.last.arg)
          IN  /\ (call.pc = "volume" /\ m.volume.kind = "int") =>
                    player'.volume = player.volume
              /\ (call.pc = "title" /\ m.title.kind = "str") =>
                    player'.media_title = player.media_title]_vars

\* C36: one push message is applied in one step of the event loop: the step
\* that writes the title, the first field of the handler, also writes the
\* volume and the source, its last, so that a polling pass suspended on a
\* request never finds the message half applied
C36_PushAppliedInOneStep ==
    [][PushStep =>
          LET m == MsgByName(player'.last.arg)
          IN  ~Unprocessable(m) =>
                /\ m.title.kind = "str" => player'.media_title = m.title.s
                /\ m.volume.kind = "int" =>
                      player'.volume = FromRatio(m.volume.n, 100)
                /\ m.contextPath.kind = "str" =>
                      player'.source = IF StartsWithSpotify(m.contextPath.s)
                                       THEN "Spotify" ELSE m.contextPath.s]_vars

\* C36 witness: a message with a title, a volume and a source has been
\* applied while the polling pass was suspended on a request
C36_Witness ==
    /\ call.op = "async_update"
    /\ call.pc = "mute"
    /\ player.ops > call.at
    /\ player.last.op = "push"
    /\ player.last.arg = "full"
    /\ player.media_title = "Test Song"
    /\ player.volume = FromRatio(50, 100)
    /\ player.source = "Spotify"

\* C37: when the PUT of async_set_volume_level fails, the stored volume is
\* the one from before the call
C37_FailedPutKeepsVolume ==
    [][(CommandStep("set_volume") /\ ~call'.clean) =>
          player'.volume = player.volume]_vars

(***************************************************************************)
(* Properties of NaimWebSocketClient._connected (Spec).                    *)
(***************************************************************************)
\* C38: _connected is True only while a listener holds an open connection
\* and is in its read loop; in every other state (before the first connect,
\* while connecting, closing or sleeping, after the task has ended) it is
\* False
C38_ConnectedOnlyWhileOpen ==
    connected => \E t \in Tasks : Holding(t) /\ listener[t].writer = "open"

\* C38 witness: the peer closed, the close of the socket raised, and the
\* listener sleeps before its next attempt with the flag down
C38_Witness ==
    \E t \in Tasks :
        /\ listener[t].pc = "sleeping"
        /\ listener[t].cause = "eof"
        /\ listener[t].writer = "closefailed"
        /\ ~connected

(***************************************************************************)
(* Properties of NaimApiClient: the number of requests of a call (SpecApi).*)
(***************************************************************************)
\* the call has returned or raised
ApiEnded == api.pc \in {"returned", "raised", "failed"}

\* C39 as stated: a call that has returned or raised has made at least one
\* and at most max_retries requests, whatever max_retries is
C39_OneToMaxRequests ==
    ApiEnded => Len(api.resps) >= 1 /\ Len(api.resps) <= api.maxRetries

\* C39, amended: a call never makes more than max_retries requests nor more
\* sleeps than requests; with max_retries >= 1 a call that has ended has made
\* at least one request, and with max_retries = 0 it makes none and raises
\* NaimConnectionError at once
C39_AtMostMaxRequests ==
    /\ Len(api.resps) <= api.maxRetries
    /\ Len(api.sleeps) <= Len(api.resps)
    /\ (ApiEnded /\ api.maxRetries >= 1) => Len(api.resps) >= 1
    /\ (api.op # "none" /\ api.maxRetries = 0) =>
          /\ api.pc = "raised"
          /\ api.result = "exhausted"
          /\ api.resps = <<>>

\* C39 witness: a client with max_retries = 0 has raised without a request
C39_Witness ==
    /\ api.maxRetries = 0
    /\ api.pc = "raised"
    /\ api.resps = <<>>

(***************************************************************************)
(* The listener of NaimWebSocketClient when nothing goes wrong around it:  *)
(* start() is called once and stop() never, every open_connection          *)
(* succeeds, the device sends whole JSON objects and never closes, reads   *)
(* and closes raise nothing and the handler returns.  The event loop runs  *)
(* a task whose await is over, so the listener's steps are weakly fair;    *)
(* the device is free to send or not.                                      *)
(***************************************************************************)
NextLive ==
    \/ Start
    \/ \E t \in Tasks, f \in JsonObjects : DeviceSend(t, f)
    \/ \E t \in Tasks : BeginAttempt(t)
    \/ \E t \in Tasks : OpenConnectionOK(t)
    \/ \E t \in Tasks, n \in 1..MaxRead : ReaderRead(t, n, TRUE)
    \/ HandlerReturn
    \/ \E t \in Tasks : WaitClosed(t, TRUE)

\* line 60: a listener awaits reader.read and bytes have arrived, and the
\* step that takes bytes off the wire.  ReaderRead is enabled exactly when
\* ReadPending holds, and among the steps of NextLive it alone shortens the
\* wire of a listener that is reading
ReadPending ==
    \E t \in Tasks :
        /\ listener[t].pc = "reading"
        /\ listener[t].wire # <<>>
        /\ ~listener[t].cancelReq
ReadStep ==
    \E t \in Tasks :
        /\ listener[t].pc = "reading"
        /\ Len(listener'[t].wire) < Len(listener[t].wire)

\* weak fairness of each step of the listener; that of the read is spelled
\* out with ReadPending and ReadStep
SpecLive ==
    /\ Init /\ [][NextLive]_vars
    /\ WF_vars(\E t \in Tasks : BeginAttempt(t))
    /\ WF_vars(\E t \in Tasks : OpenConnectionOK(t))
    /\ ([]<>(~ReadPending) \/ []<><<ReadStep>>_vars)
    /\ WF_vars(HandlerReturn)
    /\ WF_vars(\E t \in Tasks : WaitClosed(t, TRUE))

\* frame f is among the frames fs
Among(f, fs) == \E i \in 1..Len(fs) : fs[i] = f

\* C40: once started the client becomes connected, and every object the
\* device sends on a connection is eventually dispatched to the handler
C40_EventuallyDispatched ==
    /\ (task = 1) ~> connected
    /\ \A f \in JsonObjects :
          Among(f, listener[1].sent) ~> Among(f, listener[1].handled)
====
